---------------------------- MODULE Spec2Model ----------------------------
(***************************************************************************)
(* Shipwrecked: the hour totals of the projects API, the approved-hours    *)
(* batch of the review API, and the shell-price form of the shop admin     *)
(* page.                                                                   *)
(*                                                                         *)
(*   src/app/api/projects/route.ts   GET / POST / DELETE / PUT of projects *)
(*   src/app/api/review/route.ts     GET of the review queue (lines 1-198) *)
(*                                   and the ShopItemsPage component       *)
(*                                   (lines 199-1026)                      *)
(*                                                                         *)
(* JavaScript values that can be something else than a finite number are   *)
(* tagged records, so that null, undefined and NaN stay distinct from 0.   *)
(***************************************************************************)
EXTENDS Integers, Sequences, FiniteSets, TLC

VARIABLES
    projects,         \* the Project table with its hackatimeLinks (database)
    rpc,              \* review GET: "idle" or "loop" (inside the per-user loop)
    rqueue,           \* review GET: the userIds the loop has still to visit
    userProjectsMap,  \* review GET: userId -> aggregated approved hours
    failedUsers,      \* review GET: the users whose iteration ended in the catch
    reviewResponse,   \* review GET: the last response
    apiResponse,      \* projects API: the last response and the handler it came from
    putTotalHours,    \* projects PUT: the total it logged after the override updates
    auditLog,         \* the audit events written by logProjectEvent
    loading,          \* shop page: true until the first fetchData has ended
    globalConfig,     \* shop page: the global config as fetched
    formData,         \* shop page: the item form
    editingItem,      \* shop page: the id of the item being edited, 0 for none
    showAddModal,     \* shop page: the form is open
    serverDollarsPerHour, \* global config store: dollars_per_hour
    lastRequest,      \* the last request the item form sent to /api/admin/shop-items,
                      \* with the form's price and the page's rate as it was sent
    error,            \* shop page: an error message is shown
    crashed,          \* shop page: an effect threw and the page is gone
    dollarsPerHourText, \* shop page: dollarsPerHour, the text of the rate input
    pricingConfig,    \* shop page: the texts of the two percent inputs
    successMessage,   \* shop page: the success message is shown
    lastSave,         \* what the last Save Global Config did, until the rate,
                      \* the rate input or an item is written again
    shopItems,        \* item store: the items, an item's id being its index
    serverPercent,    \* global config store: the two percent values
    now,              \* the clock, in minutes
    lastSample,       \* price sampler: the last SamplePrice call
    reviews,          \* the Review table: <<projectID, n>> for each review
    storeCall,        \* projects POST and PUT: the data last handed to the store
    deletion          \* projects DELETE: the request under way and how far it is

reviewVars == <<rpc, rqueue, userProjectsMap, failedUsers, reviewResponse>>
projectVars == <<apiResponse, putTotalHours, auditLog>>

saveVars == <<dollarsPerHourText, pricingConfig, successMessage, lastSave>>
storeVars == <<shopItems, serverPercent>>
sampleVars == <<now, lastSample>>
requestVars == <<reviews, storeCall, deletion>>

shopVars == <<loading, globalConfig, formData, editingItem, showAddModal,
              serverDollarsPerHour, lastRequest, error, crashed, saveVars,
              storeVars, sampleVars>>

vars == <<projects, reviewVars, projectVars, shopVars, requestVars>>

---------------------------------------------------------------------------
(* Bounds of the model *)

MaxProjects == 5
MaxCreditProjects == 2
MaxBatchProjects == 3
MaxLinks == 2
MaxItems == 2
MaxUsers == 2
MaxInstant == 60
MaxAccessProjects == 3
MaxReviews == 2

(* Constants of the program *)

TopProjects == 4
PerProjectCap == 15
TotalCap == 60

---------------------------------------------------------------------------
(* JavaScript values *)

Num(n) == [t |-> "number", v |-> n]
Null == [t |-> "null", v |-> 0]
Undefined == [t |-> "undefined", v |-> 0]
NaN == [t |-> "NaN", v |-> 0]

Bool(b) == [t |-> "boolean", v |-> IF b THEN 1 ELSE 0]

\* a string, 0 being the empty one
Str(n) == [t |-> "string", v |-> n]

\* a value in a condition: false, 0, '', null, undefined and NaN are falsy
JsTruthy(x) == x.t \in {"boolean", "number", "string"} /\ x.v # 0

\* typeof x === 'number' (NaN is of type number too)
TypeofNumber(x) == x.t \in {"number", "NaN"}

\* x !== undefined && x !== null
IsPresent(x) == x.t \notin {"null", "undefined"}

\* a + b on numbers, null and undefined: null counts as 0, undefined gives NaN
JsAdd(a, b) ==
    LET n(x) == IF x.t = "null" THEN Num(0) ELSE x
    IN  IF n(a).t = "number" /\ n(b).t = "number"
        THEN Num(n(a).v + n(b).v)
        ELSE NaN

Min(a, b) == IF a <= b THEN a ELSE b

RECURSIVE SumSeq(_)
SumSeq(s) == IF s = <<>> THEN 0 ELSE s[1] + SumSeq(Tail(s))

Map(F(_), s) == [i \in 1..Len(s) |-> F(s[i])]

---------------------------------------------------------------------------
(* Tracked-time links and projects *)

Link(id, raw, override) == [id |-> id, rawHours |-> raw, hoursOverride |-> override]

Project(id, user, links, approved, shipped, viral, inReview) ==
    [projectID |-> id, userId |-> user, hackatimeLinks |-> links,
     approvedHours |-> approved, shipped |-> shipped, viral |-> viral,
     in_review |-> inReview]

\* LinkResolver of the specification (4.1): the override when present, else the
\* raw hours, else 0; an integer.
ResolveEffectiveHours(link) ==
    IF IsPresent(link.hoursOverride) THEN link.hoursOverride.v
    ELSE IF link.rawHours.t = "number" THEN link.rawHours.v
    ELSE 0

\* getProjectHackatimeHours of lib/project-client: ProjectHourResolver (4.2)
getProjectHackatimeHours(project) ==
    SumSeq(Map(ResolveEffectiveHours, project.hackatimeLinks))

\* getProjectApprovedHours of lib/project-client: the approved hours the review
\* subsystem supplies for the project
getProjectApprovedHours(project) == project.approvedHours

---------------------------------------------------------------------------
(* review GET: the approved hours of one user (lines 104-143) *)

\* s with x placed behind every element whose hours are >= x.hours
RECURSIVE InsertByHoursDesc(_, _)
InsertByHoursDesc(x, s) ==
    IF s = <<>> THEN <<x>>
    ELSE IF s[1].hours >= x.hours THEN <<s[1]>> \o InsertByHoursDesc(x, Tail(s))
    ELSE <<x>> \o s

\* Array.prototype.sort((a, b) => b.hours - a.hours): a stable descending sort
RECURSIVE SortByHoursDesc(_)
SortByHoursDesc(s) ==
    IF s = <<>> THEN <<>>
    ELSE InsertByHoursDesc(s[Len(s)], SortByHoursDesc(SubSeq(s, 1, Len(s) - 1)))

\* a faulty variant: one project too many is kept
ProjectsWithHoursTopFive(userProjects) ==
    SubSeq(SortByHoursDesc(Map(LAMBDA p : [project |-> p, hours |-> getProjectHackatimeHours(p)],
                               userProjects)),
           1, Min(TopProjects + 1, Len(userProjects)))

\* a faulty variant: among projects of equal hours the later ones come first
ProjectsWithHoursLaterFirst(userProjects) ==
    LET reversed == [i \in 1..Len(userProjects) |->
                        userProjects[Len(userProjects) + 1 - i]]
    IN  SubSeq(SortByHoursDesc(Map(LAMBDA p : [project |-> p,
                                               hours |-> getProjectHackatimeHours(p)],
                                   reversed)),
               1, Min(TopProjects, Len(userProjects)))

\* .map(project => ({project, hours})).sort(...).slice(0, 4)
ProjectsWithHours(userProjects) ==
    SubSeq(SortByHoursDesc(Map(LAMBDA p : [project |-> p, hours |-> getProjectHackatimeHours(p)],
                               userProjects)),
           1, Min(TopProjects, Len(userProjects)))

\* a faulty variant: the shipped branch without its test of the approved hours
ContributedHoursShippedUnchecked(project) ==
    LET projectApprovedHours == getProjectApprovedHours(project)
    IN  IF project.viral = TRUE /\ projectApprovedHours > 0
        THEN Min(projectApprovedHours, PerProjectCap)
        ELSE IF project.shipped = TRUE
        THEN Min(projectApprovedHours, PerProjectCap)
        ELSE IF ~project.shipped /\ ~project.viral
        THEN IF projectApprovedHours > 0
             THEN Min(projectApprovedHours, PerProjectCap)
             ELSE 0
        ELSE 0

\* a faulty variant: the unshipped branch without the cap
ContributedHoursUnshippedUncapped(project) ==
    LET projectApprovedHours == getProjectApprovedHours(project)
    IN  IF project.viral = TRUE /\ projectApprovedHours > 0
        THEN Min(projectApprovedHours, PerProjectCap)
        ELSE IF project.shipped = TRUE /\ projectApprovedHours > 0
        THEN Min(projectApprovedHours, PerProjectCap)
        ELSE IF ~project.shipped /\ ~project.viral
        THEN IF projectApprovedHours > 0
             THEN projectApprovedHours
             ELSE 0
        ELSE 0

\* the body of projectsWithHours.forEach: what one project adds (lines 114-139)
ContributedHours(project) ==
    LET projectApprovedHours == getProjectApprovedHours(project)
    IN  IF project.viral = TRUE /\ projectApprovedHours > 0
        THEN Min(projectApprovedHours, PerProjectCap)
        ELSE IF project.shipped = TRUE /\ projectApprovedHours > 0
        THEN Min(projectApprovedHours, PerProjectCap)
        ELSE IF ~project.shipped /\ ~project.viral
        THEN IF projectApprovedHours > 0
             THEN Min(projectApprovedHours, PerProjectCap)
             ELSE 0
        ELSE 0

\* finalHours of one user
AggregateApprovedHours(userProjects) ==
    Min(SumSeq(Map(LAMBDA e : ContributedHours(e.project), ProjectsWithHours(userProjects))),
        TotalCap)

\* prisma.project.findMany({ where: { userId } })
ProjectsOfUser(userId) == SelectSeq(projects, LAMBDA p : p.userId = userId)

---------------------------------------------------------------------------
(* review GET: the handler (lines 8-198) *)

\* a request of one handler is looked at on its own: when it starts, what the
\* requests before it answered is gone
NoResponse == [status |-> 0, body |-> <<>>]
NoApiResponse == [handler |-> "none", status |-> 0, body |-> <<>>]
NoValue == [t |-> "none", v |-> 0]

\* prisma.project.findMany({ where: { in_review: true } })
ProjectsInReview == SelectSeq(projects, LAMBDA p : p.in_review)

\* [...new Set(s)]: the first occurrences, in order
RECURSIVE Unique(_)
Unique(s) ==
    IF s = <<>> THEN <<>>
    ELSE LET front == Unique(SubSeq(s, 1, Len(s) - 1))
             x == s[Len(s)]
         IN  IF \E i \in 1..Len(front) : front[i] = x THEN front ELSE Append(front, x)

\* link.rawHours summed where it is a number (lines 155-158)
ReviewRawHours(project) ==
    LET add(link) == IF TypeofNumber(link.rawHours) THEN link.rawHours ELSE Num(0)
        F[i \in 0..Len(project.hackatimeLinks)] ==
            IF i = 0 THEN Num(0) ELSE JsAdd(F[i - 1], add(project.hackatimeLinks[i]))
    IN  F[Len(project.hackatimeLinks)]

\* userProjectsMap[project.userId] || 0
OwnerApprovedHours(map, userId) == IF userId \in DOMAIN map THEN map[userId] ELSE 0

FormattedProjects(map) ==
    Map(LAMBDA p : [projectID |-> p.projectID, userId |-> p.userId,
                    rawHours |-> ReviewRawHours(p),
                    ownerApprovedHours |-> OwnerApprovedHours(map, p.userId)],
        ProjectsInReview)

EmptyMap == [u \in {} |-> 0]

\* session check, the projects in review and their owners (lines 13-94)
ReviewGET_Start(role) ==
    /\ UNCHANGED <<shopVars, requestVars>>
    /\ rpc = "idle"
    /\ userProjectsMap' = EmptyMap
    /\ failedUsers' = {}
    /\ IF role = "none"
       THEN /\ reviewResponse' = [status |-> 401, body |-> <<>>]
            /\ UNCHANGED <<rpc, rqueue>>
       ELSE IF role \notin {"Admin", "Reviewer"}
       THEN /\ reviewResponse' = [status |-> 403, body |-> <<>>]
            /\ UNCHANGED <<rpc, rqueue>>
       ELSE LET userIds == Unique(Map(LAMBDA p : p.userId, ProjectsInReview))
            IN  IF userIds = <<>>
                THEN /\ reviewResponse' = [status |-> 200, body |-> <<>>]
                     /\ UNCHANGED <<rpc, rqueue>>
                ELSE /\ rpc' = "loop"
                     /\ rqueue' = userIds
                     /\ reviewResponse' = NoResponse
    /\ apiResponse' = NoApiResponse
    /\ putTotalHours' = NoValue
    /\ UNCHANGED <<projects, auditLog>>

\* one iteration of the loop over userIds, try branch (lines 97-143)
ReviewGET_User ==
    /\ UNCHANGED <<shopVars, requestVars>>
    /\ rpc = "loop"
    /\ rqueue # <<>>
    /\ LET userId == Head(rqueue)
       IN  userProjectsMap' = (userId :> AggregateApprovedHours(ProjectsOfUser(userId)))
                                  @@ userProjectsMap
    /\ rqueue' = Tail(rqueue)
    /\ UNCHANGED <<projects, rpc, failedUsers, reviewResponse, projectVars>>

\* a faulty variant: the error leaves the loop and reaches the outer catch
\* (lines 191-197)
ReviewGET_UserErrorAborts ==
    /\ UNCHANGED <<shopVars, requestVars>>
    /\ rpc = "loop"
    /\ rqueue # <<>>
    /\ failedUsers' = failedUsers \cup {Head(rqueue)}
    /\ reviewResponse' = [status |-> 500, body |-> <<>>]
    /\ rpc' = "idle"
    /\ rqueue' = <<>>
    /\ UNCHANGED <<projects, userProjectsMap, projectVars>>

\* one iteration whose findMany or computation threw: the catch (lines 144-147)
ReviewGET_UserError ==
    /\ UNCHANGED <<shopVars, requestVars>>
    /\ rpc = "loop"
    /\ rqueue # <<>>
    /\ LET userId == Head(rqueue)
       IN  /\ userProjectsMap' = (userId :> 0) @@ userProjectsMap
           /\ failedUsers' = failedUsers \cup {userId}
    /\ rqueue' = Tail(rqueue)
    /\ UNCHANGED <<projects, rpc, reviewResponse, projectVars>>

\* the formatted response (lines 150-190)
ReviewGET_Respond ==
    /\ UNCHANGED <<shopVars, requestVars>>
    /\ rpc = "loop"
    /\ rqueue = <<>>
    /\ reviewResponse' = [status |-> 200, body |-> FormattedProjects(userProjectsMap)]
    /\ rpc' = "idle"
    /\ UNCHANGED <<projects, rqueue, userProjectsMap, failedUsers, projectVars>>

ReviewGET ==
    \/ \E role \in {"none", "User", "Reviewer", "Admin"} : ReviewGET_Start(role)
    \/ ReviewGET_User
    \/ ReviewGET_UserError
    \/ ReviewGET_Respond

---------------------------------------------------------------------------
(* The shop administration page (ShopItemsPage) and its price formulas *)

\* the text of a form field: '', a numeral, or the text 'NaN'
EmptyText == [t |-> "empty", v |-> 0]
NumText(n) == [t |-> "numeral", v |-> n]
NaNText == [t |-> "NaNtext", v |-> 0]

\* the text of the config field: '', a JSON object, or text JSON.parse rejects
JsonText(obj) == [t |-> "json", v |-> obj]
InvalidJson == [t |-> "invalid", v |-> 0]

\* the config text 'null': JSON.parse accepts it and returns null
JsonNull == [t |-> "jsonnull", v |-> Null]

\* a config object; an absent key reads as undefined
Config(dph, hpp) ==
    [dollars_per_hour |-> dph, hours_equal_to_one_percent_progress |-> hpp]
EmptyConfig == Config(Undefined, Undefined)

\* parseFloat and parseInt of a field's text (the numerals here are integers)
ParseFloat(text) == IF text.t = "numeral" THEN Num(text.v) ELSE NaN
ParseInt(text) == IF text.t = "numeral" THEN Num(text.v) ELSE NaN

\* Number.prototype.toString
NumberToString(x) == IF x.t = "number" THEN NumText(x.v) ELSE NaNText

\* a value in a condition: undefined, null, NaN and 0 are falsy
Truthy(x) == x.t = "number" /\ x.v # 0

\* whether a + b * sqrt(5) >= 0, in integers
SignGE(a, b) ==
    \/ a >= 0 /\ b >= 0
    \/ a >= 0 /\ b < 0 /\ a * a >= 5 * b * b
    \/ a < 0 /\ b > 0 /\ 5 * b * b >= a * a

\* Math.round((num / den) * phi * 10) for den > 0, phi = (1 + sqrt(5)) / 2:
\* the largest n with n <= (num / den) * 5 * (1 + sqrt(5)) + 1/2
RoundShellsPos(num, den) ==
    LET est == (1618 * num) \div (100 * den)
        AtMost(n) == SignGE(10 * num + den - 2 * n * den, 10 * num)
    IN  CHOOSE n \in (est - 2)..(est + 2) : AtMost(n) /\ ~AtMost(n + 1)

\* Math.round(hours * phi * 10) with hours = num / den as JavaScript divides:
\* x / 0 is Infinity, -Infinity or NaN, and so is the rounded product
RoundShells(num, den) ==
    IF den = 0 THEN (IF num = 0 THEN NaN
                     ELSE [t |-> "infinity", v |-> IF num > 0 THEN 1 ELSE -1])
    ELSE IF den > 0 THEN Num(RoundShellsPos(num, den))
    ELSE Num(RoundShellsPos(-num, -den))

\* calculateShellPrice of lib/shop-utils
calculateShellPrice(usdCost, dollarsPerHour) ==
    RoundShells(usdCost, dollarsPerHour)

\* useState: the form as it is created and as every reset leaves it
EmptyForm ==
    [price |-> EmptyText, usdCost |-> EmptyText, costType |-> "fixed",
     config |-> EmptyText]

NoSample ==
    [userId |-> 0, itemId |-> 0, at |-> 0, earlier |-> 0 - 1, basePrice |-> 0,
     useRandomizedPricing |-> FALSE, min |-> 0, max |-> 0, price |-> 0]

NoRequest ==
    [method |-> "none", id |-> 0, payload |-> <<>>, formPrice |-> EmptyText,
     globalRate |-> Undefined]

\* useState: the percent inputs show 90 and 110
DefaultPricingConfig == [minPercent |-> NumText(90), maxPercent |-> NumText(110)]

\* a save: whether the rate was posted, the rate entered, the rate stored
\* and the page's copy of it before, what became of the recalculation (and
\* whether it repeats a complete one with the same rate), the items it could
\* not write, and whether success was reported
NoSave ==
    [posted |-> FALSE, rate |-> EmptyText, previous |-> EmptyText,
     copy |-> Undefined, recalc |-> "none", again |-> FALSE, failed |-> {},
     success |-> FALSE]

\* the page as it is mounted, the store's rate being `rate`
ShopInit(rate) ==
    /\ dollarsPerHourText = EmptyText
    /\ pricingConfig = DefaultPricingConfig
    /\ successMessage = FALSE
    /\ lastSave = NoSave
    /\ shopItems = <<>>
    /\ serverPercent = [min |-> EmptyText, max |-> EmptyText]
    /\ now = 0
    /\ lastSample = NoSample
    /\ loading = TRUE
    /\ globalConfig = [dollars_per_hour |-> Undefined]
    /\ formData = EmptyForm
    /\ editingItem = 0
    /\ showAddModal = FALSE
    /\ serverDollarsPerHour = rate
    /\ lastRequest = NoRequest
    /\ error = FALSE
    /\ crashed = FALSE

\* JSON.parse(formData.config) inside the effect's try: {} for '' and on a throw
EffectConfig(fd) == IF fd.config.t = "json" THEN fd.config.v ELSE EmptyConfig

\* the effect's progress branch taken only with a cost entered, as the
\* preview below the form does
PriceEffectNeedsCost(fd) ==
    IF fd.costType # "config" THEN fd
    ELSE LET configObj == EffectConfig(fd)
             usdCost == ParseFloat(fd.usdCost)
         IN  IF Truthy(configObj.dollars_per_hour) /\ usdCost.t = "number"
             THEN [fd EXCEPT !.price =
                      NumberToString(RoundShells(usdCost.v, configObj.dollars_per_hour.v))]
             ELSE IF Truthy(configObj.hours_equal_to_one_percent_progress)
                     /\ fd.usdCost # EmptyText
             THEN [fd EXCEPT !.price = NumberToString(RoundShells(
                      configObj.hours_equal_to_one_percent_progress.v, 1))]
             ELSE fd

\* the effect dividing by the page's global rate
PriceEffectGlobalRate(fd) ==
    IF fd.costType # "config" THEN fd
    ELSE LET configObj == EffectConfig(fd)
             usdCost == ParseFloat(fd.usdCost)
         IN  IF Truthy(configObj.dollars_per_hour) /\ usdCost.t = "number"
             THEN [fd EXCEPT !.price = NumberToString(RoundShells(usdCost.v,
                      IF globalConfig.dollars_per_hour.t = "numeral"
                      THEN globalConfig.dollars_per_hour.v ELSE 0))]
             ELSE IF Truthy(configObj.hours_equal_to_one_percent_progress)
             THEN [fd EXCEPT !.price = NumberToString(RoundShells(
                      configObj.hours_equal_to_one_percent_progress.v, 1))]
             ELSE fd

\* the effect that auto-calculates the price of a config item
PriceEffect(fd) ==
    IF fd.costType # "config" THEN fd
    ELSE LET configObj == EffectConfig(fd)
             usdCost == ParseFloat(fd.usdCost)
         IN  IF Truthy(configObj.dollars_per_hour) /\ usdCost.t = "number"
             THEN [fd EXCEPT !.price =
                      NumberToString(RoundShells(usdCost.v, configObj.dollars_per_hour.v))]
             ELSE IF Truthy(configObj.hours_equal_to_one_percent_progress)
             THEN [fd EXCEPT !.price = NumberToString(RoundShells(
                      configObj.hours_equal_to_one_percent_progress.v, 1))]
             ELSE fd

\* the effect's dependencies
EffectDeps(fd) == <<fd.config, fd.usdCost, fd.costType>>

\* the effect reads configObj.dollars_per_hour outside its try: with the
\* config text 'null' configObj is null and the read throws a TypeError
EffectThrows(fd) == fd.costType = "config" /\ fd.config = JsonNull

\* the effect runs after a render in which one of its dependencies changed
EffectRuns(old, new) == EffectDeps(old) # EffectDeps(new)

\* a render after the form changed from old to new; an effect that throws
\* takes the page down with its state
AfterRender(old, new) ==
    IF ~EffectRuns(old, new) THEN new
    ELSE IF EffectThrows(new) THEN EmptyForm
    ELSE PriceEffect(new)

\* globalConfig.dollars_per_hour || '0'
OrZeroText(x) == IF x = Undefined \/ x = EmptyText THEN NumText(0) ELSE x

\* JSON.stringify of a number: NaN and the infinities are written as null
JsonNumber(x) == IF x.t = "number" THEN x ELSE Null

\* handleSubmit storing the price as the form holds it
FinalPriceAsEntered(fd, gc) == ParseInt(fd.price)

\* handleSubmit dividing by the item's own rate when its config supplies one
FinalPriceItemRate(fd, gc) ==
    LET usdCost == ParseFloat(fd.usdCost)
        configObj == EffectConfig(fd)
        dollarsPerHour == IF Truthy(configObj.dollars_per_hour)
                          THEN configObj.dollars_per_hour
                          ELSE ParseFloat(OrZeroText(gc.dollars_per_hour))
    IN  IF /\ fd.costType # "config"
           /\ usdCost.t = "number" /\ usdCost.v > 0
           /\ dollarsPerHour.t = "number" /\ dollarsPerHour.v > 0
        THEN calculateShellPrice(usdCost.v, dollarsPerHour.v)
        ELSE ParseInt(fd.price)

\* handleSubmit: the price that goes into the payload
FinalPrice(fd, gc) ==
    LET finalPrice == ParseInt(fd.price)
        usdCost == ParseFloat(fd.usdCost)
        dollarsPerHour == ParseFloat(OrZeroText(gc.dollars_per_hour))
    IN  IF /\ fd.costType # "config"
           /\ usdCost.t = "number" /\ usdCost.v > 0
           /\ dollarsPerHour.t = "number" /\ dollarsPerHour.v > 0
        THEN calculateShellPrice(usdCost.v, dollarsPerHour.v)
        ELSE finalPrice

\* the preview under the form: which panel is shown, and the shells it shows
NoPreview == [panel |-> "none", shells |-> NaN]
PricePreview(fd, gc) ==
    IF fd.costType # "config"
    THEN IF fd.usdCost # EmptyText /\ gc.dollars_per_hour \notin {Undefined, EmptyText}
         THEN [panel |-> "fixed",
               shells |-> calculateShellPrice(ParseFloat(fd.usdCost).v,
                                              ParseFloat(gc.dollars_per_hour).v)]
         ELSE NoPreview
    ELSE IF fd.config.t # "json" THEN NoPreview
    ELSE LET configObj == fd.config.v
         IN  IF Truthy(configObj.dollars_per_hour) /\ fd.usdCost # EmptyText
             THEN [panel |-> "travel",
                   shells |-> RoundShells(ParseFloat(fd.usdCost).v,
                                          configObj.dollars_per_hour.v)]
             ELSE IF Truthy(configObj.hours_equal_to_one_percent_progress)
                     /\ fd.usdCost # EmptyText
             THEN [panel |-> "progress",
                   shells |-> RoundShells(
                       configObj.hours_equal_to_one_percent_progress.v, 1)]
             ELSE NoPreview

otherVars == <<projects, reviewVars, projectVars, sampleVars, requestVars>>

\* fetchData reading the global config; a failed fetch leaves the page's copy
FetchedConfig(ok) ==
    IF ok THEN [dollars_per_hour |-> serverDollarsPerHour] ELSE globalConfig

\* x || d for a text x
OrText(x, d) == IF x = Undefined \/ x = EmptyText THEN d ELSE x

\* fetchData initializing the percent inputs and the rate input
FetchedPricingConfig(ok) ==
    IF ok THEN [minPercent |-> OrText(serverPercent.min, NumText(90)),
                maxPercent |-> OrText(serverPercent.max, NumText(110))]
    ELSE pricingConfig

FetchedDollarsPerHour(ok) ==
    IF ok THEN OrText(serverDollarsPerHour, EmptyText) ELSE dollarsPerHourText

\* the page is mounted: fetchData runs once and the spinner goes
Mount(ok) ==
    /\ loading /\ ~crashed
    /\ globalConfig' = FetchedConfig(ok)
    /\ pricingConfig' = FetchedPricingConfig(ok)
    /\ dollarsPerHourText' = FetchedDollarsPerHour(ok)
    /\ loading' = FALSE
    /\ UNCHANGED <<formData, editingItem, showAddModal, serverDollarsPerHour,
                   lastRequest, error, crashed, successMessage, lastSave,
                   storeVars, otherVars>>

\* the browser loads the page anew: every useState starts over
Reload ==
    /\ loading' = TRUE
    /\ globalConfig' = [dollars_per_hour |-> Undefined]
    /\ formData' = EmptyForm
    /\ editingItem' = 0
    /\ showAddModal' = FALSE
    /\ lastRequest' = NoRequest
    /\ error' = FALSE
    /\ crashed' = FALSE
    /\ dollarsPerHourText' = EmptyText
    /\ pricingConfig' = DefaultPricingConfig
    /\ successMessage' = FALSE
    /\ UNCHANGED <<serverDollarsPerHour, lastSave, storeVars, otherVars>>

\* a POST to /api/admin/global-config from any session sets the stored rate
GlobalConfigPOST(rate) ==
    /\ serverDollarsPerHour' = rate
    /\ lastSave' = NoSave
    /\ UNCHANGED <<loading, globalConfig, formData, editingItem, showAddModal,
                   lastRequest, error, crashed, dollarsPerHourText, pricingConfig,
                   successMessage, storeVars, otherVars>>

\* the Add New Item button
AddNewItem ==
    /\ ~loading /\ ~showAddModal /\ ~crashed
    /\ editingItem' = 0
    /\ formData' = AfterRender(formData, EmptyForm)
    /\ showAddModal' = TRUE
    /\ lastRequest' = NoRequest
    /\ UNCHANGED <<loading, globalConfig, serverDollarsPerHour, error, crashed,
                   saveVars, storeVars, otherVars>>

\* an item of the fetched list
ShopItem(id, price, usdCost, costType, config) ==
    [id |-> id, price |-> price, usdCost |-> usdCost, costType |-> costType,
     config |-> config]

\* the Edit button of a row of the table
handleEdit(item) ==
    /\ ~loading /\ ~showAddModal /\ ~crashed
    /\ editingItem' = item.id
    /\ formData' = AfterRender(formData,
          [price |-> NumberToString(item.price),
           usdCost |-> IF item.usdCost.t = "number"
                       THEN NumberToString(item.usdCost) ELSE EmptyText,
           costType |-> item.costType,
           config |-> IF item.config = Null THEN EmptyText
                      ELSE JsonText(item.config)])
    /\ showAddModal' = TRUE
    /\ lastRequest' = NoRequest
    /\ UNCHANGED <<loading, globalConfig, serverDollarsPerHour, error, crashed,
                   saveVars, storeVars, otherVars>>

\* a field of the open form is edited
SetField(fd) ==
    /\ showAddModal /\ ~crashed
    /\ formData' = AfterRender(formData, fd)
    /\ lastRequest' = NoRequest
    /\ IF EffectRuns(formData, fd) /\ EffectThrows(fd)
       THEN /\ crashed' = TRUE
            /\ showAddModal' = FALSE
            /\ editingItem' = 0
       ELSE UNCHANGED <<crashed, showAddModal, editingItem>>
    /\ UNCHANGED <<loading, globalConfig, serverDollarsPerHour, error, saveVars,
                   storeVars, otherVars>>

SetUsdCost(text) == SetField([formData EXCEPT !.usdCost = text])

SetCostType(costType) == SetField([formData EXCEPT !.costType = costType])

\* the config field is on the form only for a config item
SetConfig(text) ==
    /\ formData.costType = "config"
    /\ SetField([formData EXCEPT !.config = text])

\* the Cancel button
CancelForm ==
    /\ showAddModal /\ ~crashed
    /\ showAddModal' = FALSE
    /\ editingItem' = 0
    /\ formData' = AfterRender(formData, EmptyForm)
    /\ lastRequest' = NoRequest
    /\ UNCHANGED <<loading, globalConfig, serverDollarsPerHour, error, crashed,
                   saveVars, storeVars, otherVars>>

\* the form's required fields are filled in, or the browser does not submit it
FormValid ==
    /\ formData.usdCost # EmptyText
    /\ formData.costType = "config" => formData.config # EmptyText

\* the form is submitted; responseOk is the item API's answer, fetchOk that of
\* the refresh that follows a saved item
handleSubmit(responseOk, fetchOk) ==
    /\ showAddModal /\ FormValid /\ ~crashed
    /\ IF formData.config = InvalidJson
       THEN \* JSON.parse throws: the error is shown and nothing is sent
            /\ lastRequest' = NoRequest
            /\ error' = TRUE
            /\ UNCHANGED <<formData, editingItem, showAddModal, globalConfig,
                           dollarsPerHourText, pricingConfig>>
       ELSE /\ lastRequest' =
                 [method |-> IF editingItem # 0 THEN "PUT" ELSE "POST",
                  id |-> editingItem,
                  payload |->
                      [price |-> JsonNumber(FinalPrice(formData, globalConfig)),
                       usdCost |-> JsonNumber(ParseFloat(formData.usdCost)),
                       costType |-> formData.costType,
                       config |-> IF formData.config = EmptyText THEN Null
                                  ELSE formData.config.v],
                  formPrice |-> formData.price,
                  globalRate |-> globalConfig.dollars_per_hour]
            /\ IF responseOk
               THEN /\ formData' = AfterRender(formData, EmptyForm)
                    /\ editingItem' = 0
                    /\ showAddModal' = FALSE
                    /\ globalConfig' = FetchedConfig(fetchOk)
                    /\ pricingConfig' = FetchedPricingConfig(fetchOk)
                    /\ dollarsPerHourText' = FetchedDollarsPerHour(fetchOk)
                    /\ UNCHANGED error
               ELSE /\ error' = TRUE
                    /\ UNCHANGED <<formData, editingItem, showAddModal,
                                   globalConfig, dollarsPerHourText, pricingConfig>>
    /\ UNCHANGED <<loading, serverDollarsPerHour, crashed, successMessage,
                   lastSave, storeVars, otherVars>>

\* the Dollars per Hour input is edited
SetDollarsPerHour(text) ==
    /\ ~loading /\ ~showAddModal /\ ~crashed
    /\ dollarsPerHourText' = text
    /\ lastSave' = NoSave
    /\ UNCHANGED <<loading, globalConfig, formData, editingItem, showAddModal,
                   serverDollarsPerHour, lastRequest, error, crashed,
                   pricingConfig, successMessage, storeVars, otherVars>>

\* a percent input is edited
SetPricingConfig(config) ==
    /\ ~loading /\ ~showAddModal /\ ~crashed
    /\ pricingConfig' = config
    /\ UNCHANGED <<loading, globalConfig, formData, editingItem, showAddModal,
                   serverDollarsPerHour, lastRequest, error, crashed,
                   dollarsPerHourText, successMessage, lastSave, storeVars,
                   otherVars>>

\* the success message goes after its three seconds
ClearSuccessMessage ==
    /\ successMessage /\ ~crashed
    /\ successMessage' = FALSE
    /\ UNCHANGED <<loading, globalConfig, formData, editingItem, showAddModal,
                   serverDollarsPerHour, lastRequest, error, crashed,
                   dollarsPerHourText, pricingConfig, lastSave, storeVars,
                   otherVars>>

---------------------------------------------------------------------------
(* The randomized price sampler (4.5) *)

HourMinutes == 60
TickMinutes == 30
SeedRange == 6

\* the one-hour bucket of an instant
TimeBucketOfInstant(nowInstant) == nowInstant
TimeBucket(nowInstant) == nowInstant \div HourMinutes

\* the seeded pseudo-random function of the three keys, in 0..SeedRange
Seed(userId, itemId, timeBucket) ==
    (userId * 31 + itemId * 17 + timeBucket * 5) % (SeedRange + 1)

\* Math.round(num / den) for den > 0
RoundDiv(num, den) == (2 * num + den) \div (2 * den)

\* the sampler applying the multiplier to every item
SamplePriceAlwaysRandomized(item, userId, nowInstant, min, max) ==
    LET seed == Seed(userId, item.id, TimeBucket(nowInstant))
    IN  RoundDiv(item.basePrice * (min * SeedRange + (max - min) * seed),
                 100 * SeedRange)

\* the displayed price: basePrice times a multiplier between min/100 and
\* max/100 chosen by the seed, basePrice itself without randomized pricing
SamplePrice(item, userId, nowInstant, min, max) ==
    LET seed == Seed(userId, item.id, TimeBucket(nowInstant))
    IN  IF item.useRandomizedPricing
        THEN RoundDiv(item.basePrice * (min * SeedRange + (max - min) * seed),
                      100 * SeedRange)
        ELSE item.basePrice

SampleItem(id, basePrice, useRandomizedPricing) ==
    [id |-> id, basePrice |-> basePrice, useRandomizedPricing |-> useRandomizedPricing]

\* the clock advances
Tick ==
    /\ now + TickMinutes <= MaxInstant
    /\ now' = now + TickMinutes
    /\ UNCHANGED <<lastSample, loading, globalConfig, formData, editingItem,
                   showAddModal, serverDollarsPerHour, lastRequest, error,
                   crashed, saveVars, storeVars, projects, reviewVars,
                   projectVars, requestVars>>

\* a user is shown the price of an item: the percent range is read from the
\* global config store at the call
SamplePriceCall(item, userId) ==
    LET min == ParseFloat(serverPercent.min)
        max == ParseFloat(serverPercent.max)
        repeats == /\ lastSample.userId = userId
                   /\ lastSample.itemId = item.id
                   /\ TimeBucket(lastSample.at) = TimeBucket(now)
    IN  /\ min.t = "number" /\ max.t = "number"
        /\ lastSample' =
              [userId |-> userId, itemId |-> item.id, at |-> now,
               earlier |-> IF repeats THEN lastSample.at ELSE 0 - 1,
               basePrice |-> item.basePrice,
               useRandomizedPricing |-> item.useRandomizedPricing,
               min |-> min.v, max |-> max.v,
               price |-> SamplePrice(item, userId, now, min.v, max.v)]
        /\ UNCHANGED <<now, loading, globalConfig, formData, editingItem,
                       showAddModal, serverDollarsPerHour, lastRequest, error,
                       crashed, saveVars, storeVars, projects, reviewVars,
                       projectVars, requestVars>>

---------------------------------------------------------------------------
(* The item store and the recalculation *)

\* the item API stores an item: a POST (id 0) adds it, a PUT replaces item id
ShopItemsSave(id, item) ==
    /\ IF id = 0
       THEN /\ Len(shopItems) < MaxItems
            /\ shopItems' = Append(shopItems, [item EXCEPT !.id = Len(shopItems) + 1])
       ELSE /\ id \in 1..Len(shopItems)
            /\ shopItems' = [shopItems EXCEPT ![id] = [item EXCEPT !.id = id]]
    /\ lastSave' = NoSave
    /\ UNCHANGED <<loading, globalConfig, formData, editingItem, showAddModal,
                   serverDollarsPerHour, lastRequest, error, crashed,
                   dollarsPerHourText, pricingConfig, successMessage,
                   serverPercent, otherVars>>

\* the recalculation computing a fixed item's price from its stored price
RecalculateFromPrice(items, rate, failed) ==
    [i \in 1..Len(items) |->
        IF items[i].costType = "fixed" /\ i \notin failed
           /\ items[i].price.t = "number"
        THEN [items[i] EXCEPT !.price = calculateShellPrice(items[i].price.v, rate)]
        ELSE items[i]]

\* the recalculation giving up at the first write that fails
RecalculateAbortsOnFailure(items, rate, failed) ==
    [i \in 1..Len(items) |->
        IF items[i].costType = "fixed" /\ (\A j \in 1..i : j \notin failed)
           /\ items[i].usdCost.t = "number"
        THEN [items[i] EXCEPT !.price = calculateShellPrice(items[i].usdCost.v, rate)]
        ELSE items[i]]

\* POST /api/admin/shop-items/recalculate-prices: every fixed item gets the
\* price for the rate, but for the items whose write fails
Recalculate(items, rate, failed) ==
    [i \in 1..Len(items) |->
        IF items[i].costType = "fixed" /\ i \notin failed
           /\ items[i].usdCost.t = "number"
        THEN [items[i] EXCEPT !.price = calculateShellPrice(items[i].usdCost.v, rate)]
        ELSE items[i]]

\* savePricingConfig never asking for a recalculation
RecalcTriggeredNever(posts, old, new) == FALSE

\* savePricingConfig: the rate was posted, and it changed to a positive number
RecalcTriggered(posts, old, new) ==
    posts /\ old # new /\ new.t = "number" /\ new.v > 0

\* savePricingConfig asking for a recalculation with the rate it replaced
RecalcRequestRateOld(old, new) == old.v

\* savePricingConfig: the dollarsPerHour of the recalculation request
RecalcRequestRate(old, new) == new.v

\* the Save Global Config button. rateOk, recalcOk and percentOk are the
\* answers of the config and recalculation APIs (percentOk one of "ok",
\* "minFails", "maxFails"), failed the items the recalculation could not
\* write, fetchOk the answer to the refresh that ends a save
savePricingConfig(rateOk, recalcOk, failed, percentOk, fetchOk) ==
    /\ ~loading /\ ~showAddModal /\ ~crashed
    /\ LET oldDollarsPerHour == ParseFloat(OrZeroText(globalConfig.dollars_per_hour))
           newDollarsPerHour == ParseFloat(OrZeroText(dollarsPerHourText))
           posts == dollarsPerHourText # OrText(globalConfig.dollars_per_hour, EmptyText)
           posted == posts /\ rateOk
           recalcs == RecalcTriggered(posted, oldDollarsPerHour, newDollarsPerHour)
           threw == (posts /\ ~rateOk) \/ percentOk # "ok"
           rateStored == IF posted THEN dollarsPerHourText ELSE serverDollarsPerHour
           percentStored ==
               IF posts /\ ~rateOk THEN serverPercent
               ELSE IF percentOk = "minFails" THEN serverPercent
               ELSE IF percentOk = "maxFails"
                    THEN [serverPercent EXCEPT !.min = pricingConfig.minPercent]
               ELSE [min |-> pricingConfig.minPercent,
                     max |-> pricingConfig.maxPercent]
       IN  /\ (recalcs /\ recalcOk) \/ failed = {}
           /\ failed \subseteq 1..Len(shopItems)
           /\ posts \/ rateOk
           /\ (posts /\ ~rateOk) => percentOk = "ok"
           /\ recalcs \/ recalcOk
           /\ threw => fetchOk
           /\ serverDollarsPerHour' = rateStored
           /\ shopItems' =
                 IF recalcs /\ recalcOk
                 THEN Recalculate(shopItems,
                          RecalcRequestRate(oldDollarsPerHour, newDollarsPerHour),
                          failed)
                 ELSE shopItems
           /\ serverPercent' = percentStored
           /\ error' = threw
           /\ lastSave' =
                 [posted |-> posted, rate |-> dollarsPerHourText,
                  previous |-> serverDollarsPerHour,
                  copy |-> globalConfig.dollars_per_hour,
                  recalc |-> IF ~recalcs THEN "none"
                             ELSE IF ~recalcOk THEN "failed"
                             ELSE IF failed # {} THEN "partial" ELSE "done",
                  again |-> /\ recalcs /\ recalcOk
                            /\ lastSave.recalc = "done"
                            /\ lastSave.rate = dollarsPerHourText,
                  failed |-> failed, success |-> ~threw]
           /\ IF threw
              THEN UNCHANGED <<globalConfig, dollarsPerHourText, pricingConfig,
                               successMessage>>
              ELSE /\ successMessage' = TRUE
                   /\ globalConfig' =
                         IF fetchOk THEN [dollars_per_hour |-> rateStored]
                         ELSE [dollars_per_hour |-> dollarsPerHourText]
                   /\ dollarsPerHourText' =
                         IF fetchOk THEN OrText(rateStored, EmptyText)
                         ELSE dollarsPerHourText
                   /\ pricingConfig' =
                         IF fetchOk
                         THEN [minPercent |-> OrText(percentStored.min, NumText(90)),
                               maxPercent |-> OrText(percentStored.max, NumText(110))]
                         ELSE pricingConfig
    /\ UNCHANGED <<loading, formData, editingItem, showAddModal, lastRequest,
                   crashed, otherVars>>

---------------------------------------------------------------------------
(* The database as the handlers find it *)

\* no data handed to the store
NoCall ==
    [handler |-> "none", userId |-> 0, isAdmin |-> FALSE, isReviewer |-> FALSE,
     projectID |-> 0, body |-> [k \in {} |-> Undefined], linksAsked |-> FALSE,
     written |-> FALSE, data |-> [k \in {} |-> Undefined]]

\* the request was refused before anything was handed to the store
Refused(handler, user, projectID, body, linksAsked) ==
    [NoCall EXCEPT !.handler = handler, !.userId = user.id,
                   !.isAdmin = user.role = "Admin" \/ user.isAdmin = TRUE,
                   !.isReviewer = user.role = "Reviewer",
                   !.projectID = projectID, !.body = body,
                   !.linksAsked = linksAsked]

\* no DELETE request so far: pc is the handler's position ("idle" when no
\* request is under way), audit what logProjectEvent did, before the tables
\* when the request arrived
NoDeletion ==
    [pc |-> "idle", userId |-> 0, isAdmin |-> FALSE, fromAdminPanel |-> FALSE,
     projectID |-> 0, audit |-> "none",
     before |-> [projects |-> <<>>, reviews |-> {}, auditLog |-> {}]]


\* responses computed before a write belong to the old tables
StaleResponses ==
    /\ reviewResponse' = NoResponse
    /\ userProjectsMap' = EmptyMap
    /\ failedUsers' = {}
    /\ apiResponse' = NoApiResponse
    /\ putTotalHours' = NoValue

\* what a request to the projects API leaves of the review request before it
ReviewForgotten ==
    /\ reviewResponse' = NoResponse
    /\ userProjectsMap' = EmptyMap
    /\ failedUsers' = {}
    /\ UNCHANGED <<rpc, rqueue>>

\* a project row appears (created through POST, its links by the sync job)
InsertProject(p) ==
    /\ UNCHANGED <<shopVars, requestVars>>
    /\ rpc = "idle"
    /\ LET id == Len(projects) + 1
       IN  projects' = Append(projects,
               [p EXCEPT !.projectID = id,
                         !.hackatimeLinks = [i \in 1..Len(@) |-> [@[i] EXCEPT !.id = <<id, i>>]]])
    /\ StaleResponses
    /\ UNCHANGED <<rpc, rqueue, auditLog>>

\* the Hackatime sync job links one more tracked project to project i
SyncLink(i, raw) ==
    /\ UNCHANGED <<shopVars, requestVars>>
    /\ rpc = "idle"
    /\ i \in 1..Len(projects)
    /\ Len(projects[i].hackatimeLinks) < MaxLinks
    /\ projects' = [projects EXCEPT ![i].hackatimeLinks =
                       Append(@, Link(<<projects[i].projectID, Len(@) + 1>>, raw, Null))]
    /\ StaleResponses
    /\ UNCHANGED <<rpc, rqueue, auditLog>>

Init ==
    /\ projects = <<>>
    /\ rpc = "idle"
    /\ rqueue = <<>>
    /\ userProjectsMap = EmptyMap
    /\ failedUsers = {}
    /\ reviewResponse = NoResponse
    /\ apiResponse = NoApiResponse
    /\ putTotalHours = NoValue
    /\ auditLog = {}
    /\ reviews = {}
    /\ storeCall = NoCall
    /\ deletion = NoDeletion
    /\ ShopInit(EmptyText)

---------------------------------------------------------------------------
(* Sessions *)

User(id, role, isAdmin) == [id |-> id, role |-> role, isAdmin |-> isAdmin]

\* requireUserSession() threw
NoUser == User(0, "none", FALSE)

\* user.role === 'Admin' || user.isAdmin === true
IsAdmin(user) == user.role = "Admin" \/ user.isAdmin = TRUE

\* user.role === 'Reviewer'
IsReviewer(user) == user.role = "Reviewer"

---------------------------------------------------------------------------
(* projects GET (lines 62-116) *)

\* effectiveHours of the reduce callback (lines 89-91)
GetEffectiveHours(link) ==
    IF IsPresent(link.hoursOverride)
    THEN link.hoursOverride
    ELSE IF TypeofNumber(link.rawHours) THEN link.rawHours ELSE Num(0)

\* rawHours of the enhanced project (lines 86-96)
GetRawHours(project) ==
    LET F[i \in 0..Len(project.hackatimeLinks)] ==
            IF i = 0 THEN Num(0)
            ELSE JsAdd(F[i - 1], GetEffectiveHours(project.hackatimeLinks[i]))
    IN  F[Len(project.hackatimeLinks)]

ProjectsGET(user) ==
    /\ UNCHANGED <<shopVars, requestVars>>
    /\ rpc = "idle"
    /\ IF user = NoUser
       THEN apiResponse' = [handler |-> "GET", status |-> 500, body |-> <<>>]
       ELSE apiResponse' =
               [handler |-> "GET", status |-> 200,
                body |-> Map(LAMBDA p : [projectID |-> p.projectID, rawHours |-> GetRawHours(p)],
                             ProjectsOfUser(user.id))]
    /\ putTotalHours' = NoValue
    /\ ReviewForgotten
    /\ UNCHANGED <<projects, auditLog>>

---------------------------------------------------------------------------
(* projects POST (lines 118-387) *)

\* the security check for a creator who is neither admin nor reviewer (lines
\* 126-129, 228-246): a restricted field that is exactly true becomes false
RestrictedForCreator(user, projectData) ==
    IF IsAdmin(user) \/ IsReviewer(user) THEN projectData
    ELSE [k \in DOMAIN projectData |->
             IF k \in {"shipped", "viral", "in_review"} /\ projectData[k] = Bool(TRUE)
             THEN Bool(FALSE)
             ELSE projectData[k]]

\* createProject of lib/project: the row it inserts for the data it is handed,
\* under the next free id
CreatedProject(table, userId, data) ==
    LET flag(k) == k \in DOMAIN data /\ data[k] = Bool(TRUE)
        ids == {table[i].projectID : i \in 1..Len(table)}
        newProjectID == IF table = <<>> THEN 1
                        ELSE 1 + CHOOSE m \in ids : \A n \in ids : n <= m
    IN  Project(newProjectID, userId, <<>>, 0,
                flag("shipped"), flag("viral"), flag("in_review"))

\* one POST request with a JSON body: created is what createProject does
\* ("ok", "null" for no result, "throws"), auditOk whether logProjectEvent
\* succeeds
ProjectsPOST(user, body, created, auditOk) ==
    /\ UNCHANGED <<shopVars, reviews, deletion>>
    /\ rpc = "idle"
    /\ Len(projects) < MaxAccessProjects
    /\ ReviewForgotten
    /\ putTotalHours' = NoValue
    /\ IF \/ user = NoUser
          \/ "name" \notin DOMAIN body \/ ~JsTruthy(body["name"])
          \/ "description" \notin DOMAIN body \/ ~JsTruthy(body["description"])
       THEN /\ apiResponse' = [handler |-> "POST", status |-> 500, body |-> <<>>]
            /\ storeCall' = Refused("POST", user, 0, body, FALSE)
            /\ UNCHANGED <<projects, auditLog>>
       ELSE
       LET projectData == RestrictedForCreator(user, body)
           createdProject == CreatedProject(projects, user.id, projectData)
       IN  /\ storeCall' =
                 [Refused("POST", user,
                          IF created = "ok" THEN createdProject.projectID ELSE 0,
                          body, FALSE)
                      EXCEPT !.written = TRUE, !.data = projectData]
           /\ IF created = "ok"
              THEN /\ projects' = Append(projects, createdProject)
                   /\ apiResponse' = [handler |-> "POST", status |-> 200,
                                      body |-> <<createdProject>>]
                   /\ auditLog' =
                          IF auditOk
                          THEN auditLog \cup
                                  {[eventType |-> "ProjectCreated",
                                    projectId |-> createdProject.projectID,
                                    actorUserId |-> user.id]}
                          ELSE auditLog
              ELSE /\ apiResponse' = [handler |-> "POST", status |-> 500, body |-> <<>>]
                   /\ UNCHANGED <<projects, auditLog>>

---------------------------------------------------------------------------
(* projects PUT (lines 501-811) *)

userUpdateableFields == {"name", "description", "codeUrl", "playableUrl", "screenshot",
                         "chat_enabled"}
adminOnlyFields == {"shipped", "viral"}
reviewerUpdateableFields == {"in_review"} \cup userUpdateableFields
nonUpdateableFields == {"hackatimeName"}

\* f restricted to the keys in K
Restrict(f, K) == [k \in DOMAIN f \cap K |-> f[k]]

\* a faulty variant: the project-level hoursOverride goes through
FilteredFieldsKeepingOverride(user, fields) ==
    LET given == {k \in DOMAIN fields : fields[k] # Undefined}
    IN  IF IsAdmin(user) THEN Restrict(fields, given \ nonUpdateableFields)
        ELSE IF IsReviewer(user)
        THEN Restrict(fields, (given \cap reviewerUpdateableFields) \ nonUpdateableFields)
        ELSE Restrict(fields, (given \cap userUpdateableFields) \ nonUpdateableFields)

\* a faulty variant: everyone's fields are filtered like an administrator's
FilteredFieldsAsAdmin(user, fields) ==
    LET given == {k \in DOMAIN fields \ {"hoursOverride"} : fields[k] # Undefined}
    IN  Restrict(fields, given \ nonUpdateableFields)

\* updateFields after the security check and the filter by role (lines 604-637);
\* a key whose value is undefined is dropped
FilteredFields(user, fields) ==
    LET given == {k \in DOMAIN fields \ {"hoursOverride"} : fields[k] # Undefined}
    IN  IF IsAdmin(user) THEN Restrict(fields, given \ nonUpdateableFields)
        ELSE IF IsReviewer(user)
        THEN Restrict(fields, (given \cap reviewerUpdateableFields) \ nonUpdateableFields)
        ELSE Restrict(fields, (given \cap userUpdateableFields) \ nonUpdateableFields)

\* prisma.project.update({ data }): the row with the given fields replaced
UpdatedProject(p, data) ==
    [k \in DOMAIN p \cup DOMAIN data |->
        IF k \in DOMAIN data
        THEN (IF data[k].t = "boolean" THEN data[k].v = 1 ELSE data[k])
        ELSE p[k]]

\* a faulty variant: anyone may override the hours of links
MayOverrideLinksAnyone(user) == TRUE

\* isAdmin || isReviewer before the loop over the overrides (line 691)
MayOverrideLinks(user) == IsAdmin(user) \/ IsReviewer(user)

\* the index of the project with this id, 0 when there is none
ProjectIndex(table, projectID) ==
    IF \E i \in 1..Len(table) : table[i].projectID = projectID
    THEN CHOOSE i \in 1..Len(table) : table[i].projectID = projectID
    ELSE 0

LinkIds(table) ==
    UNION {{table[i].hackatimeLinks[j].id : j \in 1..Len(table[i].hackatimeLinks)} :
              i \in 1..Len(table)}

\* prisma.hackatimeProjectLink.update({ where: { id }, data: { hoursOverride } })
WithLinkOverride(table, linkId, value) ==
    [i \in 1..Len(table) |->
        [table[i] EXCEPT !.hackatimeLinks =
            [j \in 1..Len(@) |->
                IF @[j].id = linkId THEN [@[j] EXCEPT !.hoursOverride = value] ELSE @[j]]]]

\* the value the loop writes for one entry of hackatimeLinkOverrides
\* (lines 696-707); NoValue when the entry is skipped
OverrideToWrite(hours) ==
    IF hours.t = "number" THEN hours
    ELSE IF hours.t \in {"null", "undefined", "emptystring"} THEN Null
    ELSE NoValue

\* the loop over Object.entries(hackatimeLinkOverrides) (lines 695-708): the
\* table after it, and whether an update of a missing link threw
RECURSIVE ApplyOverrides(_, _)
ApplyOverrides(table, overrides) ==
    IF overrides = <<>> THEN [table |-> table, threw |-> FALSE]
    ELSE LET linkId == overrides[1][1]
             value == OverrideToWrite(overrides[1][2])
         IN  IF value = NoValue THEN ApplyOverrides(table, Tail(overrides))
             ELSE IF linkId \notin LinkIds(table) THEN [table |-> table, threw |-> TRUE]
             ELSE ApplyOverrides(WithLinkOverride(table, linkId, value), Tail(overrides))

\* effectiveHours of the reduce callback (lines 721-723)
PutEffectiveHours(link) ==
    IF IsPresent(link.hoursOverride) THEN link.hoursOverride ELSE link.rawHours

\* totalHours of the refreshed project (lines 720-725)
PutTotalHours(project) ==
    LET F[i \in 0..Len(project.hackatimeLinks)] ==
            IF i = 0 THEN Num(0)
            ELSE JsAdd(F[i - 1], PutEffectiveHours(project.hackatimeLinks[i]))
    IN  F[Len(project.hackatimeLinks)]

\* one PUT request: fields is the body without projectID and
\* hackatimeLinkOverrides, overrides the entries of hackatimeLinkOverrides in
\* order, auditOk whether logProjectEvent succeeds
ProjectsPUT(user, projectID, fields, overrides, auditOk) ==
    /\ UNCHANGED <<shopVars, reviews, deletion>>
    /\ rpc = "idle"
    /\ ReviewForgotten
    /\ IF user = NoUser
       THEN /\ apiResponse' = [handler |-> "PUT", status |-> 500, body |-> <<>>]
            /\ putTotalHours' = NoValue
            /\ storeCall' = Refused("PUT", user, projectID, fields, overrides # <<>>)
            /\ UNCHANGED <<projects, auditLog>>
       ELSE IF projectID = 0
       THEN /\ apiResponse' = [handler |-> "PUT", status |-> 400, body |-> <<>>]
            /\ putTotalHours' = NoValue
            /\ storeCall' = Refused("PUT", user, projectID, fields, overrides # <<>>)
            /\ UNCHANGED <<projects, auditLog>>
       ELSE
       LET updateFields == FilteredFields(user, fields)
           idx == ProjectIndex(projects, projectID)
           existing == IF idx = 0 THEN 0
                       ELSE IF IsAdmin(user) \/ projects[idx].userId = user.id THEN idx
                       ELSE 0
       IN  IF existing = 0
           THEN /\ apiResponse' = [handler |-> "PUT", status |-> 404, body |-> <<>>]
                /\ putTotalHours' = NoValue
                /\ storeCall' = Refused("PUT", user, projectID, fields, overrides # <<>>)
                /\ UNCHANGED <<projects, auditLog>>
           ELSE
           LET updated == [projects EXCEPT ![idx] = UpdatedProject(@, updateFields)]
               withLinks == MayOverrideLinks(user) /\ overrides # <<>>
               applied == IF withLinks THEN ApplyOverrides(updated, overrides)
                          ELSE [table |-> updated, threw |-> FALSE]
           IN  /\ projects' = applied.table
               /\ storeCall' =
                     [Refused("PUT", user, projectID, fields, overrides # <<>>)
                          EXCEPT !.written = TRUE, !.data = updateFields]
               /\ IF applied.threw
                  THEN /\ apiResponse' = [handler |-> "PUT", status |-> 500, body |-> <<>>]
                       /\ putTotalHours' = NoValue
                       /\ UNCHANGED auditLog
                  ELSE /\ apiResponse' = [handler |-> "PUT", status |-> 200,
                                           body |-> <<applied.table[idx]>>]
                       /\ putTotalHours' = IF withLinks THEN PutTotalHours(applied.table[idx])
                                           ELSE NoValue
                       /\ auditLog' =
                              IF (IsAdmin(user) \/ IsReviewer(user)) /\ auditOk
                              THEN auditLog \cup
                                      {[eventType |-> "OtherEvent", projectId |-> projectID,
                                        actorUserId |-> user.id]}
                              ELSE auditLog
---------------------------------------------------------------------------
(* projects DELETE (lines 389-499): the handler in three steps, the audit-log
   write with the checks before it, review.deleteMany, and project.delete *)

\* a faulty variant: the handler goes on after logProjectEvent threw
AfterAuditGoingOn(audit) == "audited"

\* where the handler is after logProjectEvent (lines 456-473): a throw leaves
\* the try block for the catch at 492
AfterAudit(audit) == IF audit = "throws" THEN "idle" ELSE "audited"

\* lines 389-473: the session, the referer, the role, the body, the lookup
\* and the audit-log write; audit is what logProjectEvent does ("ok",
\* "failed" when it returns nothing, "throws")
ProjectsDELETE(user, fromAdminPanel, parsable, projectID, audit) ==
    /\ UNCHANGED <<shopVars, storeCall, projects, reviews>>
    /\ rpc = "idle"
    /\ deletion.pc = "idle"
    /\ ReviewForgotten
    /\ putTotalHours' = NoValue
    /\ LET request == [NoDeletion EXCEPT
                           !.userId = user.id,
                           !.isAdmin = user.role = "Admin" \/ user.isAdmin = TRUE,
                           !.fromAdminPanel = fromAdminPanel,
                           !.projectID = IF parsable THEN projectID ELSE 0,
                           !.before = [projects |-> projects, reviews |-> reviews,
                                       auditLog |-> auditLog]]
           refused(status) == /\ apiResponse' = [handler |-> "DELETE", status |-> status, body |-> <<>>]
                              /\ deletion' = request
                              /\ UNCHANGED auditLog
       IN  IF user = NoUser THEN refused(500)
           ELSE IF ~fromAdminPanel THEN refused(403)
           ELSE IF ~IsAdmin(user) THEN refused(403)
           ELSE IF ~parsable THEN refused(400)
           ELSE IF projectID = 0 THEN refused(400)
           ELSE IF ProjectIndex(projects, projectID) = 0 THEN refused(404)
           ELSE /\ deletion' = [request EXCEPT !.pc = AfterAudit(audit), !.audit = audit]
                /\ auditLog' =
                       IF audit = "ok"
                       THEN auditLog \cup {[eventType |-> "ProjectDeleted",
                                            projectId |-> projectID,
                                            actorUserId |-> user.id]}
                       ELSE auditLog
                /\ apiResponse' = IF audit = "throws" THEN [handler |-> "DELETE", status |-> 500, body |-> <<>>]
                                  ELSE NoApiResponse

\* prisma.review.deleteMany({ where: { projectID } }) (lines 477-480)
DeleteReviews(ok) ==
    /\ UNCHANGED <<shopVars, storeCall, projects, reviewVars, putTotalHours, auditLog>>
    /\ deletion.pc = "audited"
    /\ IF ok
       THEN /\ reviews' = {r \in reviews : r[1] # deletion.projectID}
            /\ deletion' = [deletion EXCEPT !.pc = "reviewsDeleted"]
            /\ UNCHANGED apiResponse
       ELSE /\ deletion' = [deletion EXCEPT !.pc = "idle"]
            /\ apiResponse' = [handler |-> "DELETE", status |-> 500, body |-> <<>>]
            /\ UNCHANGED reviews

\* prisma.project.delete and the answer (lines 482-490), or the catch (492-498)
DeleteProject(ok) ==
    /\ UNCHANGED <<shopVars, storeCall, reviews, reviewVars, putTotalHours, auditLog>>
    /\ deletion.pc = "reviewsDeleted"
    /\ deletion' = [deletion EXCEPT !.pc = "idle"]
    /\ IF ok /\ ProjectIndex(projects, deletion.projectID) # 0
       THEN /\ projects' = SelectSeq(projects,
                                   LAMBDA p : p.projectID # deletion.projectID)
            /\ apiResponse' = [handler |-> "DELETE", status |-> 200, body |-> <<>>]
       ELSE /\ apiResponse' = [handler |-> "DELETE", status |-> 500, body |-> <<>>]
            /\ UNCHANGED projects

---------------------------------------------------------------------------
(* Ranking: one user with up to MaxProjects projects of 10 or 20 effective
   hours, one of them through an override *)

OneLink(raw, override) == <<Link(1, Num(raw), override)>>

RankProjects ==
    {Project(0, 1, OneLink(10, Null), 20, TRUE, FALSE, TRUE),
     Project(0, 1, OneLink(10, Num(20)), 20, TRUE, FALSE, TRUE),
     Project(0, 1, OneLink(20, Null), 0, FALSE, FALSE, TRUE),
     Project(0, 1, OneLink(10, Null), 100, FALSE, TRUE, TRUE),
     Project(0, 1, OneLink(10, Null), 0 - 5, TRUE, TRUE, TRUE)}

NextRank ==
    \/ \E p \in RankProjects : Len(projects) < MaxProjects /\ InsertProject(p)
    \/ ReviewGET

SpecRank == Init /\ [][NextRank]_vars

---------------------------------------------------------------------------
(* Credit: one user with up to MaxCreditProjects projects, every combination
   of the flags with negative, zero, small and large approved hours *)

CreditProjects ==
    {Project(0, 1, OneLink(10, Null), a, s, v, TRUE) :
        a \in {0 - 5, 0, 7, 20}, s \in BOOLEAN, v \in BOOLEAN}

NextCredit ==
    \/ \E p \in CreditProjects : Len(projects) < MaxCreditProjects /\ InsertProject(p)
    \/ ReviewGET

SpecCredit == Init /\ [][NextCredit]_vars

---------------------------------------------------------------------------
(* Batch: two users, projects in and out of review *)

BatchProjects ==
    UNION {{Project(0, u, OneLink(10, Null), 20, TRUE, FALSE, r),
            Project(0, u, OneLink(10, Null), 7, FALSE, FALSE, r),
            Project(0, u, OneLink(10, Null), 0, FALSE, FALSE, r)} :
               u \in {1, 2}, r \in BOOLEAN}

NextBatch ==
    \/ \E p \in BatchProjects : Len(projects) < MaxBatchProjects /\ InsertProject(p)
    \/ ReviewGET

SpecBatch == Init /\ [][NextBatch]_vars

---------------------------------------------------------------------------
(* Links: one project in review whose links come and get overridden *)

InitLinks ==
    /\ projects = <<Project(1, 1, <<>>, 0, FALSE, FALSE, TRUE)>>
    /\ rpc = "idle"
    /\ rqueue = <<>>
    /\ userProjectsMap = EmptyMap
    /\ failedUsers = {}
    /\ reviewResponse = NoResponse
    /\ apiResponse = NoApiResponse
    /\ putTotalHours = NoValue
    /\ auditLog = {}
    /\ reviews = {}
    /\ storeCall = NoCall
    /\ deletion = NoDeletion
    /\ ShopInit(EmptyText)

Owner == User(1, "User", FALSE)
Admin == User(9, "Admin", FALSE)

NoFields == [k \in {} |-> Undefined]

NextLinks ==
    \/ \E raw \in {Undefined, Num(3), Num(5)} : SyncLink(1, raw)
    \/ \E user \in {Owner, Admin}, j \in 1..(MaxLinks + 1),
          hours \in {Num(0), Num(2), Null, [t |-> "string", v |-> 0]} :
           ProjectsPUT(user, 1, NoFields, <<<<<<1, j>>, hours>>>>, TRUE)
    \/ \E user \in {NoUser, Owner, Admin} : ProjectsGET(user)
    \/ ReviewGET

SpecLinks == InitLinks /\ [][NextLinks]_vars

---------------------------------------------------------------------------
(* Access: two projects of two owners, requests of a regular user, a
   reviewer, an administrator and a visitor without session *)

Regular == User(1, "User", FALSE)
Reviewer == User(2, "Reviewer", FALSE)

InitAccess ==
    /\ projects = <<Project(1, 1, <<Link(<<1, 1>>, Num(3), Null)>>, 0, FALSE, FALSE, FALSE),
                    Project(2, 2, <<Link(<<2, 1>>, Num(5), Num(2))>>, 0, FALSE, FALSE, TRUE)>>
    /\ rpc = "idle"
    /\ rqueue = <<>>
    /\ userProjectsMap = EmptyMap
    /\ failedUsers = {}
    /\ reviewResponse = NoResponse
    /\ apiResponse = NoApiResponse
    /\ putTotalHours = NoValue
    /\ auditLog = {}
    /\ reviews = {}
    /\ storeCall = NoCall
    /\ deletion = NoDeletion
    /\ ShopInit(EmptyText)

\* the requests: PUT bodies (fields are the body without projectID and
\* hackatimeLinkOverrides; overrides name none, the link of project 1, or a
\* link that does not exist; projectID is absent, a project or unknown) and
\* JSON POST bodies (without description, with the restricted fields true,
\* with them truthy)
NextAccess ==
    LET users == {NoUser, Regular, Reviewer, Admin}
        fieldSets ==
            {[hoursOverride |-> Undefined],
             [name |-> Str(1), shipped |-> Bool(TRUE), viral |-> Bool(TRUE),
              in_review |-> Bool(TRUE), hoursOverride |-> Num(7),
              hackatimeName |-> Str(2)]}
        overrideSets == {<<>>, <<<<<<1, 1>>, Num(9)>>>>, <<<<<<9, 1>>, Num(1)>>>>}
        bodies ==
            {[name |-> Str(1)],
             [name |-> Str(1), description |-> Str(1), shipped |-> Bool(TRUE),
              viral |-> Bool(TRUE), in_review |-> Bool(TRUE)],
             [name |-> Str(1), description |-> Str(1), shipped |-> Num(1),
              viral |-> Str(1), in_review |-> Bool(FALSE)]}
    IN  \/ \E user \in users, projectID \in {0, 1, 2, 9},
              fields \in fieldSets, overrides \in overrideSets :
               ProjectsPUT(user, projectID, fields, overrides, FALSE)
        \/ \E user \in users \ {Admin}, body \in bodies,
              created \in {"ok", "throws"} :
               ProjectsPOST(user, body, created, FALSE)

SpecAccess == InitAccess /\ [][NextAccess]_vars

---------------------------------------------------------------------------
(* Deletion: two projects with up to MaxReviews reviews each, DELETE requests
   of a visitor without session, a regular user and an administrator *)

InitDelete ==
    /\ projects = <<Project(1, 1, <<>>, 0, FALSE, FALSE, FALSE),
                    Project(2, 2, <<>>, 0, TRUE, FALSE, TRUE)>>
    /\ rpc = "idle"
    /\ rqueue = <<>>
    /\ userProjectsMap = EmptyMap
    /\ failedUsers = {}
    /\ reviewResponse = NoResponse
    /\ apiResponse = NoApiResponse
    /\ putTotalHours = NoValue
    /\ auditLog = {}
    /\ reviews \in SUBSET ({1, 2} \X (1..MaxReviews))
    /\ storeCall = NoCall
    /\ deletion = NoDeletion
    /\ ShopInit(EmptyText)

NextDelete ==
    \/ \E user \in {NoUser, Regular, Admin}, fromAdminPanel \in BOOLEAN,
          parsable \in BOOLEAN, projectID \in {0, 1, 2, 9},
          audit \in {"ok", "failed", "throws"} :
           ProjectsDELETE(user, fromAdminPanel, parsable, projectID, audit)
    \/ \E ok \in BOOLEAN : DeleteReviews(ok)
    \/ \E ok \in BOOLEAN : DeleteProject(ok)

SpecDelete == InitDelete /\ [][NextDelete]_vars

---------------------------------------------------------------------------
(* The item form of the shop page, over a few costs, configs and rates *)

ItemIds == 1..MaxItems

RateTexts == {EmptyText, NumText(4), NumText(10)}

UsdCostTexts == {EmptyText, NumText(0), NumText(10), NumText(20)}

ConfigObjects ==
    {EmptyConfig, Config(Num(5), Undefined), Config(Undefined, Num(3)),
     Config(Num(5), Num(3)), Config(Num(-5), Undefined)}

ConfigTexts ==
    {EmptyText, InvalidJson, JsonNull} \cup {JsonText(c) : c \in ConfigObjects}

\* rows the item API can return: any cost type with any config, the price as
\* it was stored
EditItems ==
    {ShopItem(id, Num(99), usdCost, costType, config) :
        id \in ItemIds, usdCost \in {Null, Num(0), Num(10)},
        costType \in {"fixed", "config"},
        config \in {Null} \cup ConfigObjects}

InitShop ==
    /\ projects = <<>>
    /\ rpc = "idle"
    /\ rqueue = <<>>
    /\ userProjectsMap = EmptyMap
    /\ failedUsers = {}
    /\ reviewResponse = NoResponse
    /\ apiResponse = NoApiResponse
    /\ putTotalHours = NoValue
    /\ auditLog = {}
    /\ reviews = {}
    /\ storeCall = NoCall
    /\ deletion = NoDeletion
    /\ \E rate \in RateTexts : ShopInit(rate)

NextShop ==
    \/ \E ok \in BOOLEAN : Mount(ok)
    \/ Reload
    \/ \E rate \in RateTexts : GlobalConfigPOST(rate)
    \/ AddNewItem
    \/ \E item \in EditItems : handleEdit(item)
    \/ \E text \in UsdCostTexts : SetUsdCost(text)
    \/ \E costType \in {"fixed", "config"} : SetCostType(costType)
    \/ \E text \in ConfigTexts : SetConfig(text)
    \/ CancelForm
    \/ \E responseOk \in BOOLEAN, fetchOk \in BOOLEAN :
           handleSubmit(responseOk, fetchOk)

SpecShop == InitShop /\ [][NextShop]_vars

---------------------------------------------------------------------------
(* Saving the global config, over a store of a few items *)

RateInputs == {NumText(0), NumText(4), NumText(10)}

\* items as the item API stores them: a fixed item priced by hand and config
\* items of both kinds
RecalcItems ==
    {ShopItem(0, Num(99), Num(10), "fixed", Null),
     ShopItem(0, Num(49), Num(10), "config", Config(Undefined, Num(3))),
     ShopItem(0, Num(32), Num(10), "config", Config(Num(5), Undefined))}

\* the writes of a recalculation that fail: none, or that of one item
FailedSets == {{}} \cup {{i} : i \in ItemIds}

InitRecalc ==
    /\ projects = <<>>
    /\ rpc = "idle"
    /\ rqueue = <<>>
    /\ userProjectsMap = EmptyMap
    /\ failedUsers = {}
    /\ reviewResponse = NoResponse
    /\ apiResponse = NoApiResponse
    /\ putTotalHours = NoValue
    /\ auditLog = {}
    /\ reviews = {}
    /\ storeCall = NoCall
    /\ deletion = NoDeletion
    /\ ShopInit(NumText(10))

NextRecalc ==
    \/ \E ok \in BOOLEAN : Mount(ok)
    \/ \E text \in RateInputs : SetDollarsPerHour(text)
    \/ \E id \in 0..MaxItems, item \in RecalcItems : ShopItemsSave(id, item)
    \/ \E rateOk \in BOOLEAN, recalcOk \in BOOLEAN, failed \in FailedSets,
          percentOk \in {"ok", "minFails", "maxFails"} :
           savePricingConfig(rateOk, recalcOk, failed, percentOk, TRUE)

SpecRecalc == InitRecalc /\ [][NextRecalc]_vars

---------------------------------------------------------------------------
(* Sampling: users are shown prices while the clock advances and the
   administrator saves percent ranges *)

UserIds == 1..MaxUsers

SampleItems ==
    UNION {{SampleItem(id, 1, TRUE), SampleItem(id, 100, TRUE),
            SampleItem(id, 100, FALSE)} : id \in ItemIds}

\* the ranges the administrator enters; a save whose second post fails
\* stores the minimum of one with the maximum of the other
PercentConfigs ==
    {[minPercent |-> NumText(90), maxPercent |-> NumText(110)],
     [minPercent |-> NumText(50), maxPercent |-> NumText(60)]}

NextSample ==
    \/ \E ok \in BOOLEAN : Mount(ok)
    \/ \E config \in PercentConfigs : SetPricingConfig(config)
    \/ \E percentOk \in {"ok", "maxFails"} :
           savePricingConfig(TRUE, TRUE, {}, percentOk, TRUE)
    \/ ClearSuccessMessage
    \/ Tick
    \/ \E item \in SampleItems, userId \in UserIds : SamplePriceCall(item, userId)

SpecSample == Init /\ [][NextSample]_vars

---------------------------------------------------------------------------
(* The aggregate as the specification states it (4.3), written without the
   sort: a project is selected when fewer than four projects rank before it *)

RanksBefore(ps, j, i) ==
    \/ getProjectHackatimeHours(ps[j]) > getProjectHackatimeHours(ps[i])
    \/ getProjectHackatimeHours(ps[j]) = getProjectHackatimeHours(ps[i]) /\ j < i

IsSelected(ps, i) ==
    Cardinality({j \in 1..Len(ps) : RanksBefore(ps, j, i)}) < TopProjects

StatedContribution(p) ==
    IF p.approvedHours > 0
       /\ (p.viral \/ p.shipped \/ (~p.shipped /\ ~p.viral))
    THEN Min(p.approvedHours, PerProjectCap)
    ELSE 0

StatedAggregate(ps) ==
    Min(SumSeq([i \in 1..Len(ps) |->
                   IF IsSelected(ps, i) THEN StatedContribution(ps[i]) ELSE 0]),
        TotalCap)

\* the users whose iteration went through the try branch
Computed == DOMAIN userProjectsMap \ failedUsers

(* C1: the aggregated approved hours recorded for a user, and reported for a
   project's owner, are a number from 0 to 60, whatever the projects are. *)
C1_AggregateInRange ==
    /\ \A u \in DOMAIN userProjectsMap :
           userProjectsMap[u] >= 0 /\ userProjectsMap[u] <= TotalCap
    /\ \A i \in 1..Len(reviewResponse.body) :
           /\ reviewResponse.body[i].ownerApprovedHours >= 0
           /\ reviewResponse.body[i].ownerApprovedHours <= TotalCap

C1_Witness ==
    /\ 1 \in Computed
    /\ userProjectsMap[1] = TotalCap
    /\ Len(projects) = MaxProjects
    /\ \E i \in 1..Len(projects) : projects[i].approvedHours < 0
    /\ \E i \in 1..Len(projects) : projects[i].approvedHours > PerProjectCap

\* the approved hours and flags a project outside the top 4 could have instead
OtherCredit ==
    {[approvedHours |-> a, shipped |-> s, viral |-> v] :
        a \in {0, 100}, s \in BOOLEAN, v \in BOOLEAN}

WithCredit(ps, i, c) ==
    [ps EXCEPT ![i] = [@ EXCEPT !.approvedHours = c.approvedHours,
                                !.shipped = c.shipped, !.viral = c.viral]]

(* C2: with more than 4 projects only the 4 with the highest effective hours
   contribute: other approved hours or flags on a project outside the top 4
   give the same result; with 4 or fewer projects every project is eligible. *)
C2_TopFourOnly ==
    \A u \in Computed :
        LET ps == ProjectsOfUser(u)
        IN  /\ \A i \in 1..Len(ps) :
                   ~IsSelected(ps, i) =>
                       \A c \in OtherCredit :
                           AggregateApprovedHours(WithCredit(ps, i, c)) = userProjectsMap[u]
            /\ Len(ps) <= TopProjects =>
                   /\ \A i \in 1..Len(ps) : IsSelected(ps, i)
                   /\ userProjectsMap[u] =
                          Min(SumSeq(Map(StatedContribution, ps)), TotalCap)

C2_Witness ==
    /\ 1 \in Computed
    /\ Len(projects) = 5
    /\ ~IsSelected(projects, 5)
    /\ projects[5].viral /\ projects[5].approvedHours = 100
    /\ userProjectsMap[1] = 45

ExampleProjects ==
    [i \in 1..5 |-> Project(i, 1, OneLink(60 - 10 * i, Null), 20, TRUE, FALSE, TRUE)]

(* C3: a selected project contributes min(approved hours, 15) when its
   approved hours are positive, whatever its flags, and 0 otherwise; the
   user's result is min(sum, 60); five shipped projects of 50, 40, 30, 20 and
   10 hours with 20 approved hours each give 60. *)
C3_Contributions ==
    /\ \A u \in Computed : userProjectsMap[u] = StatedAggregate(ProjectsOfUser(u))
    /\ AggregateApprovedHours(ExampleProjects) = 60

C3_Witness ==
    /\ 1 \in Computed
    /\ Len(projects) = 2
    /\ ~projects[1].shipped /\ ~projects[1].viral /\ projects[1].approvedHours = 0
    /\ projects[2].viral /\ projects[2].shipped /\ projects[2].approvedHours = 20
    /\ userProjectsMap[1] = PerProjectCap

\* the owners of the projects in review
ReviewedUsers == {ProjectsInReview[i].userId : i \in 1..Len(ProjectsInReview)}

(* C4: when the iteration of one user fails, that user's aggregate is 0 and
   every other user of the batch has the correctly computed aggregate; the
   batch goes on to the end and answers 200 with every project in review. *)
C4_BatchPartialFailure ==
    /\ \A u \in failedUsers : u \in DOMAIN userProjectsMap /\ userProjectsMap[u] = 0
    /\ \A u \in Computed : userProjectsMap[u] = StatedAggregate(ProjectsOfUser(u))
    /\ rpc = "loop" =>
           DOMAIN userProjectsMap \cup {rqueue[i] : i \in 1..Len(rqueue)} = ReviewedUsers
    /\ failedUsers # {} /\ rpc = "idle" =>
           /\ reviewResponse.status = 200
           /\ Len(reviewResponse.body) = Len(ProjectsInReview)
           /\ \A i \in 1..Len(reviewResponse.body) :
                  LET e == reviewResponse.body[i]
                  IN  e.ownerApprovedHours =
                          IF e.userId \in failedUsers THEN 0
                          ELSE StatedAggregate(ProjectsOfUser(e.userId))

C4_Witness ==
    /\ rpc = "idle"
    /\ reviewResponse.status = 200
    /\ failedUsers = {1}
    /\ \E i \in 1..Len(reviewResponse.body) :
           reviewResponse.body[i].userId = 2 /\ reviewResponse.body[i].ownerApprovedHours = 22
    /\ \E i \in 1..Len(reviewResponse.body) :
           reviewResponse.body[i].userId = 1 /\ reviewResponse.body[i].ownerApprovedHours = 0

---------------------------------------------------------------------------
(* The hours of links as the specification states them (4.1, 4.2) *)

StatedEffectiveHours(link) ==
    IF link.hoursOverride.t # "null" THEN link.hoursOverride
    ELSE IF link.rawHours.t = "number" THEN link.rawHours
    ELSE Num(0)

StatedProjectHours(project) ==
    Num(SumSeq([i \in 1..Len(project.hackatimeLinks) |->
                   StatedEffectiveHours(project.hackatimeLinks[i]).v]))

ProjectById(projectID) == projects[ProjectIndex(projects, projectID)]

(* C5: the effective hours of every link are hoursOverride when it is not
   null (0 included), else rawHours when that is a number, else 0, in the
   projects GET handler and in the projects PUT handler alike, so that the
   total the PUT handler logs is the sum of these values. *)
C5_EffectiveHoursResolved ==
    /\ \A i \in 1..Len(projects) : \A j \in 1..Len(projects[i].hackatimeLinks) :
           GetEffectiveHours(projects[i].hackatimeLinks[j])
               = StatedEffectiveHours(projects[i].hackatimeLinks[j])
    /\ putTotalHours # NoValue =>
           putTotalHours = StatedProjectHours(apiResponse.body[1])

NumericRawHours(project) ==
    \A j \in 1..Len(project.hackatimeLinks) : project.hackatimeLinks[j].rawHours.t = "number"

(* C6: every handler that totals the hours of a project reports the sum of
   the override-resolved hours of its links, so projects GET, projects PUT
   and review GET agree on the same project.  Stated for projects whose raw
   hours are all numbers, where the three resolvers have no other reason to
   differ. *)
C6_TotalsAgree ==
    /\ apiResponse.handler = "GET" /\ apiResponse.status = 200 =>
           \A i \in 1..Len(apiResponse.body) :
               LET e == apiResponse.body[i]
               IN  NumericRawHours(ProjectById(e.projectID)) =>
                       e.rawHours = StatedProjectHours(ProjectById(e.projectID))
    /\ putTotalHours # NoValue /\ NumericRawHours(apiResponse.body[1]) =>
           putTotalHours = StatedProjectHours(apiResponse.body[1])
    /\ reviewResponse.status = 200 =>
           \A i \in 1..Len(reviewResponse.body) :
               LET e == reviewResponse.body[i]
               IN  NumericRawHours(ProjectById(e.projectID)) =>
                       e.rawHours = StatedProjectHours(ProjectById(e.projectID))

---------------------------------------------------------------------------
(* Base prices of shop items *)

\* the integer part of the square root of m, for m <= (23 * k)^2
Isqrt(m, k) == CHOOSE r \in 0..(23 * k) : r * r <= m /\ m < (r + 1) * (r + 1)

\* round((num / den) * phi * 10) for num >= 0 and den > 0, as the floor of
\* (10 num + sqrt(500 num^2) + den) / (2 den)
StatedShellsPos(num, den) ==
    (10 * num + Isqrt(500 * num * num, num) + den) \div (2 * den)

\* the same for den # 0: a negative quotient rounds to the negated number,
\* the product being irrational unless it is 0
StatedShells(num, den) ==
    IF den > 0 THEN StatedShellsPos(num, den) ELSE 0 - StatedShellsPos(num, 0 - den)

Sent == lastRequest.method # "none"

\* the global rate the page held when the request was sent
SentRate == ParseFloat(OrZeroText(lastRequest.globalRate))

SentFixed == Sent /\ lastRequest.payload.costType = "fixed"

SentConfig ==
    /\ Sent
    /\ lastRequest.payload.costType = "config"
    /\ lastRequest.payload.config # Null

SentFixedWithRate ==
    /\ SentFixed
    /\ lastRequest.payload.config # Null
    /\ Truthy(lastRequest.payload.config.dollars_per_hour)
    /\ lastRequest.payload.usdCost.t = "number"
    /\ lastRequest.payload.usdCost.v > 0

\* C8 as stated: a fixed-cost item whose config supplies dollars_per_hour is
\* priced with that rate in place of the global one (taken here only where a
\* global rate is set)
C8_FixedItemRate ==
    (SentFixedWithRate /\ SentRate.v > 0) =>
        LET p == lastRequest.payload
        IN  p.price = Num(StatedShells(p.usdCost.v, p.config.dollars_per_hour.v))

\* C8 amended: a fixed-cost item whose config supplies dollars_per_hour is
\* still priced with the global rate (when that rate is > 0), and keeps the
\* form's price when no global rate is set; its own rate is not used
C8_FixedUsesGlobalRate ==
    SentFixedWithRate =>
        LET p == lastRequest.payload
        IN  IF SentRate.v > 0
            THEN p.price = Num(StatedShells(p.usdCost.v, SentRate.v))
            ELSE p.price = JsonNumber(ParseInt(lastRequest.formPrice))

\* a fixed-cost item of 10 dollars with an own rate of 5 was submitted at a
\* global rate of 10 and priced 16, not 32
C8_Witness ==
    /\ SentFixedWithRate
    /\ lastRequest.payload.config.dollars_per_hour = Num(5)
    /\ lastRequest.payload.usdCost = Num(10)
    /\ lastRequest.globalRate = NumText(10)
    /\ lastRequest.payload.price = Num(16)

\* C9: a config-cost item whose config supplies dollars_per_hour = r (a
\* non-zero number) and whose usdCost is a number has the price
\* round((usdCost / r) * phi * 10), in the form, in its preview and in the
\* request that stores it, whatever the global rate is
C9_ConfigRateLinked ==
    /\ (/\ formData.costType = "config"
        /\ formData.config.t = "json"
        /\ Truthy(formData.config.v.dollars_per_hour)
        /\ formData.usdCost.t = "numeral") =>
            LET shells == StatedShells(formData.usdCost.v,
                                       formData.config.v.dollars_per_hour.v)
            IN  /\ formData.price = NumText(shells)
                /\ PricePreview(formData, globalConfig) =
                       [panel |-> "travel", shells |-> Num(shells)]
    /\ (/\ SentConfig
        /\ Truthy(lastRequest.payload.config.dollars_per_hour)
        /\ lastRequest.payload.usdCost.t = "number") =>
            LET p == lastRequest.payload
            IN  p.price = Num(StatedShells(p.usdCost.v, p.config.dollars_per_hour.v))

\* a config item of 10 dollars with an own rate of 5 was submitted at a
\* global rate of 10, and priced 32
C9_Witness ==
    /\ SentConfig
    /\ lastRequest.payload.config.dollars_per_hour = Num(5)
    /\ lastRequest.payload.usdCost = Num(10)
    /\ lastRequest.globalRate = NumText(10)
    /\ lastRequest.payload.price = Num(32)

\* C10 as stated: a config-cost item whose config supplies
\* hours_equal_to_one_percent_progress = h has the price round(h * phi * 10),
\* whatever its usdCost is
C10_ProgressPrice ==
    (/\ formData.costType = "config"
     /\ formData.config.t = "json"
     /\ Truthy(formData.config.v.hours_equal_to_one_percent_progress)) =>
        formData.price = NumText(StatedShells(
            formData.config.v.hours_equal_to_one_percent_progress.v, 1))

\* C10 amended: a config-cost item whose config supplies
\* hours_equal_to_one_percent_progress = h (a non-zero number) has the price
\* round(h * phi * 10), whatever its usdCost is, provided its config supplies
\* no non-zero dollars_per_hour or its usdCost is not a number; with both keys
\* and a numeric usdCost the rate-linked price of C9 is taken instead
C10_ProgressPriceWithoutRate ==
    /\ (/\ formData.costType = "config"
        /\ formData.config.t = "json"
        /\ Truthy(formData.config.v.hours_equal_to_one_percent_progress)
        /\ \/ ~Truthy(formData.config.v.dollars_per_hour)
           \/ formData.usdCost.t # "numeral") =>
            formData.price = NumText(StatedShells(
                formData.config.v.hours_equal_to_one_percent_progress.v, 1))
    /\ (/\ SentConfig
        /\ Truthy(lastRequest.payload.config.hours_equal_to_one_percent_progress)
        /\ \/ ~Truthy(lastRequest.payload.config.dollars_per_hour)
           \/ lastRequest.payload.usdCost.t # "number") =>
            lastRequest.payload.price = Num(StatedShells(
                lastRequest.payload.config.hours_equal_to_one_percent_progress.v, 1))

\* a config item with h = 3 and no usdCost entered shows the price 49
C10_Witness ==
    /\ showAddModal
    /\ formData.costType = "config"
    /\ formData.config = JsonText(Config(Undefined, Num(3)))
    /\ formData.usdCost = EmptyText
    /\ formData.price = NumText(49)

---------------------------------------------------------------------------
(* Unrecognized configs and invalid cost bases *)

\* a config text that supplies neither recognized key: '', unparsable text,
\* null, or an object without the two keys
NeitherKey(text) ==
    \/ text \in {EmptyText, InvalidJson, JsonNull}
    \/ /\ text.t = "json"
       /\ text.v.dollars_per_hour = Undefined
       /\ text.v.hours_equal_to_one_percent_progress = Undefined

\* the forms one edit of the open form can lead to
EditedForms ==
    {[formData EXCEPT !.usdCost = text] : text \in UsdCostTexts}
        \cup {[formData EXCEPT !.costType = costType] :
                 costType \in {"fixed", "config"}}
        \cup {[formData EXCEPT !.config = text] : text \in ConfigTexts}

\* C11: for a config-cost item whose config supplies neither
\* dollars_per_hour nor hours_equal_to_one_percent_progress (an empty or
\* unparsable config included) the price is left as it was: an edit of the
\* form does not overwrite it and raises no error, and a submit that the item
\* API accepts sends it unchanged and raises no error
C11_UnrecognizedConfigKept ==
    /\ [][\A fd \in EditedForms :
            (fd.costType = "config" /\ NeitherKey(fd.config) /\ SetField(fd)) =>
                /\ formData'.price = formData.price
                /\ ~crashed'
                /\ error' = error]_vars
    /\ [][\A fetchOk \in BOOLEAN :
            (/\ formData.costType = "config"
             /\ NeitherKey(formData.config)
             /\ handleSubmit(TRUE, fetchOk)) =>
                /\ error' = error
                /\ lastRequest'.method # "none"
                /\ lastRequest'.payload.price = JsonNumber(ParseInt(formData.price))]_vars

\* C12: every computed base price is a non-negative integer: neither the
\* price the form computes nor the price a submit sends is negative
C12_PriceNonNegative ==
    /\ formData.price.t = "numeral" => formData.price.v >= 0
    /\ (Sent /\ lastRequest.payload.price.t = "number") =>
           lastRequest.payload.price.v >= 0

---------------------------------------------------------------------------
(* Recalculation of the fixed prices *)

\* every fixed item of items has the price for rate
FixedAt(items, rate) ==
    \A i \in 1..Len(items) :
        (items[i].costType = "fixed" /\ items[i].usdCost.t = "number") =>
            items[i].price = Num(StatedShells(items[i].usdCost.v, rate))

PositiveRates == {4, 10}

StoredRate == ParseFloat(OrZeroText(serverDollarsPerHour))

\* C13: recalculating twice with the same rate gives every item the same
\* price both times: a recalculation of a recalculated store changes
\* nothing, and a save that repeats a complete recalculation with the same
\* rate (as after a save that failed later on) leaves every item as it was
C13_RecalculationIdempotent ==
    /\ [](\A rate \in PositiveRates :
            Recalculate(Recalculate(shopItems, rate, {}), rate, {})
                = Recalculate(shopItems, rate, {}))
    /\ [][(/\ lastSave.recalc = "done"
           /\ lastSave'.recalc = "done"
           /\ lastSave'.rate = lastSave.rate) => shopItems' = shopItems]_vars

\* a save repeated a complete recalculation, a fixed item being in the store
C13_Witness ==
    /\ lastSave.recalc = "done"
    /\ lastSave.again
    /\ \E i \in 1..Len(shopItems) : shopItems[i].costType = "fixed"

\* C14: a recalculation with a new rate (none of its writes failing) gives
\* every fixed item the price for the new rate, and leaves every config item
\* as it was
C14_RecalculationFrame ==
    /\ [](lastSave.recalc = "done" =>
            /\ StoredRate = ParseFloat(lastSave.rate)
            /\ FixedAt(shopItems, StoredRate.v))
    /\ [][lastSave'.recalc \in {"done", "partial"} =>
            /\ Len(shopItems') = Len(shopItems)
            /\ \A i \in 1..Len(shopItems) :
                  shopItems[i].costType = "config" =>
                      shopItems'[i] = shopItems[i]]_vars

\* the rate went from 10 to 4: a fixed item of 10 dollars is at 40 and a
\* progress-linked config item still at 49
C14_Witness ==
    /\ lastSave.recalc = "done"
    /\ lastSave.previous = NumText(10)
    /\ serverDollarsPerHour = NumText(4)
    /\ \E i \in 1..Len(shopItems) :
          shopItems[i].costType = "fixed" /\ shopItems[i].price = Num(40)
    /\ \E i \in 1..Len(shopItems) :
          /\ shopItems[i].costType = "config"
          /\ shopItems[i].config.dollars_per_hour = Undefined
          /\ shopItems[i].price = Num(49)

C16_RecalcOnRateChange ==
    (lastSave.posted /\ lastSave.rate # lastSave.previous) =>
        lastSave.recalc # "none"

\* C16 amended: a save posts the rate when the input differs from the page's
\* copy of the rate; when that post succeeds, a recalculation is requested
\* exactly when the new rate is > 0 and differs from the page's copy as a
\* number (a rate of 0 is stored without one); without a successful post of
\* the rate none is requested
C16_RecalcWhenRatePositive ==
    LET new == ParseFloat(OrZeroText(lastSave.rate))
        old == ParseFloat(OrZeroText(lastSave.copy))
    IN  /\ lastSave.posted =>
              (lastSave.recalc # "none" <=> (new.v > 0 /\ new # old))
        /\ ~lastSave.posted => lastSave.recalc = "none"

\* a save stored the rate 4 in place of 10 and requested a recalculation
C16_Witness ==
    /\ lastSave.posted
    /\ lastSave.rate = NumText(4)
    /\ lastSave.previous = NumText(10)
    /\ lastSave.recalc # "none"

\* C17: after a save that changed the rate (to a positive one) and reported
\* success, every fixed item has the price for the rate now stored
C17_PricesFollowRate ==
    (/\ lastSave.success
     /\ lastSave.posted
     /\ lastSave.rate # lastSave.previous
     /\ StoredRate.v > 0) => FixedAt(shopItems, StoredRate.v)

\* C18: the price sent for a fixed item is computed with the global rate
\* that is in the store when the form is submitted (taken here only for a
\* page that has loaded a rate)
C18_RateReadFresh ==
    [][(/\ \E responseOk \in BOOLEAN, fetchOk \in BOOLEAN :
              handleSubmit(responseOk, fetchOk)
        /\ lastRequest'.method # "none"
        /\ ParseFloat(OrZeroText(globalConfig.dollars_per_hour)).v > 0
        /\ formData.costType = "fixed") =>
            lastRequest'.payload.price =
                JsonNumber(FinalPrice(formData, FetchedConfig(TRUE)))]_vars

---------------------------------------------------------------------------
(* Randomized prices *)

\* the call before the last one was for the same user and the same item
\* (with randomized pricing, at the same base price), in the same clock hour
SampledAgain ==
    /\ lastSample # NoSample
    /\ lastSample'.userId = lastSample.userId
    /\ lastSample'.itemId = lastSample.itemId
    /\ lastSample'.basePrice = lastSample.basePrice
    /\ lastSample'.at \div 60 = lastSample.at \div 60
    /\ lastSample.useRandomizedPricing
    /\ lastSample'.useRandomizedPricing

---------------------------------------------------------------------------
(* Ties at the top-4 boundary *)

\* the place of project p in ps
PlaceOf(ps, p) == CHOOSE i \in 1..Len(ps) : ps[i] = p

\* C22: among projects of equal effective hours the ones first in the input
\* order are selected: the ranked projects are the projects with fewer than
\* four projects before them, by descending hours and, among equal hours, in
\* input order; so the aggregate is determined by the input order
C22_TiesByInputOrder ==
    \A u \in Computed :
        LET ps == ProjectsOfUser(u)
            top == ProjectsWithHours(ps)
        IN  /\ {top[k].project : k \in 1..Len(top)} =
                   {ps[i] : i \in {j \in 1..Len(ps) : IsSelected(ps, j)}}
            /\ \A k \in 1..Len(top), l \in 1..Len(top) :
                   k < l =>
                       \/ top[k].hours > top[l].hours
                       \/ /\ top[k].hours = top[l].hours
                          /\ PlaceOf(ps, top[k].project) < PlaceOf(ps, top[l].project)
            /\ userProjectsMap[u] = StatedAggregate(ps)

\* the fourth and the fifth project have equal hours and would contribute
\* differently: the fourth is selected, the fifth is not
C22_Witness ==
    /\ 1 \in Computed
    /\ Len(projects) = 5
    /\ getProjectHackatimeHours(projects[4]) = getProjectHackatimeHours(projects[5])
    /\ IsSelected(projects, 4) /\ ~IsSelected(projects, 5)
    /\ StatedContribution(projects[4]) # StatedContribution(projects[5])

---------------------------------------------------------------------------
(* Who may change what through the projects POST and PUT handlers *)

\* the links of a table
LinksOf(table) ==
    UNION {{table[i].hackatimeLinks[j] : j \in 1..Len(table[i].hackatimeLinks)} :
              i \in 1..Len(table)}

\* the step is a POST or PUT request of a user who is neither administrator
\* nor reviewer
ByUnprivileged ==
    /\ storeCall'.handler \in {"POST", "PUT"}
    /\ ~storeCall'.isAdmin
    /\ ~storeCall'.isReviewer

\* C21: a POST or PUT request of a user who is neither administrator nor
\* reviewer leaves the hoursOverride of every link as it was.
C21_OverrideOnlyByPrivileged ==
    [][ByUnprivileged =>
           \A l \in LinksOf(projects) : \E m \in LinksOf(projects') :
               m.id = l.id /\ m.hoursOverride = l.hoursOverride]_vars

\* a regular user's PUT on their own project asked for an override of its
\* link, the project was updated and the link has no override
C21_Witness ==
    /\ storeCall.handler = "PUT"
    /\ storeCall.userId = 1 /\ ~storeCall.isAdmin /\ ~storeCall.isReviewer
    /\ storeCall.projectID = 1
    /\ storeCall.linksAsked /\ storeCall.written
    /\ apiResponse.status = 200
    /\ \E l \in LinksOf(projects) : l.id = <<1, 1>> /\ l.hoursOverride = Null

\* C23: a PUT request changes links of the project it names only, and for a
\* requester who is not an administrator only links of a project the requester
\* owns.
C23_OnlyLinksOfNamedProject ==
    [][storeCall'.handler = "PUT" =>
           \A i \in 1..Len(projects) :
               projects'[i].hackatimeLinks # projects[i].hackatimeLinks =>
                   /\ projects[i].projectID = storeCall'.projectID
                   /\ storeCall'.isAdmin \/ projects[i].userId = storeCall'.userId]_vars

\* C24: a POST or PUT request of a user who is not an administrator leaves
\* shipped and viral of every project as they were, and the data a creator
\* who is neither administrator nor reviewer hands to createProject has no
\* truthy shipped, viral or in_review.
C24_FlagsOnlyByAdmin ==
    [][(storeCall'.handler \in {"POST", "PUT"} /\ ~storeCall'.isAdmin) =>
           /\ \A i \in 1..Len(projects) :
                  /\ projects'[i].shipped = projects[i].shipped
                  /\ projects'[i].viral = projects[i].viral
           /\ (storeCall'.handler = "POST" /\ storeCall'.written
                   /\ ~storeCall'.isReviewer) =>
                  \A k \in {"shipped", "viral", "in_review"} \cap DOMAIN storeCall'.data :
                      ~JsTruthy(storeCall'.data[k])]_vars

\* the fields of a project row a PUT of the given role may write
StatedWritable(isReviewer) ==
    {"name", "description", "codeUrl", "playableUrl", "screenshot", "chat_enabled"}
        \cup (IF isReviewer THEN {"in_review"} ELSE {})

\* the row without its links
RowFields(p) == [k \in DOMAIN p \ {"hackatimeLinks"} |-> p[k]]

\* C28: a PUT of a user who is not an administrator that names a project the
\* user does not own is answered 404 and writes nothing; otherwise it changes
\* the row of that project only, and only in name, description, codeUrl,
\* playableUrl, screenshot and chat_enabled (and in_review for a reviewer);
\* no PUT writes hackatimeName.  The row is the Project record; the links
\* are the subject of C23.
C28_OwnProjectStatedFields ==
    [][storeCall'.handler = "PUT" =>
           /\ "hackatimeName" \notin DOMAIN storeCall'.data
           /\ \A i \in 1..Len(projects) : "hackatimeName" \notin DOMAIN projects'[i]
           /\ (~storeCall'.isAdmin /\ storeCall'.userId # 0 /\ storeCall'.projectID # 0) =>
                 LET owned == {i \in 1..Len(projects) :
                                  /\ projects[i].projectID = storeCall'.projectID
                                  /\ projects[i].userId = storeCall'.userId}
                     writable == StatedWritable(storeCall'.isReviewer)
                 IN  /\ owned = {} =>
                            /\ apiResponse'.status = 404
                            /\ ~storeCall'.written
                            /\ projects' = projects
                     /\ DOMAIN storeCall'.data \subseteq writable
                     /\ \A i \in 1..Len(projects) :
                            /\ i \notin owned => RowFields(projects'[i]) = RowFields(projects[i])
                            /\ DOMAIN projects'[i] \subseteq DOMAIN projects[i] \cup writable
                            /\ \A k \in DOMAIN projects[i] \ ({"hackatimeLinks"} \cup writable) :
                                   projects'[i][k] = projects[i][k]]_vars

\* a regular user's PUT carrying shipped and hackatimeName was answered 200
\* and wrote the name only; the project is not shipped
C28_Witness ==
    /\ storeCall.handler = "PUT"
    /\ storeCall.userId = 1 /\ ~storeCall.isAdmin /\ ~storeCall.isReviewer
    /\ storeCall.projectID = 1
    /\ "shipped" \in DOMAIN storeCall.body /\ "hackatimeName" \in DOMAIN storeCall.body
    /\ storeCall.written
    /\ DOMAIN storeCall.data = {"name"}
    /\ apiResponse.status = 200
    /\ \E i \in 1..Len(projects) :
           /\ projects[i].projectID = 1
           /\ "name" \in DOMAIN projects[i]
           /\ projects[i].shipped = FALSE

\* C29: the update data of a PUT never has the key hoursOverride, and no
\* project row gets one.
C29_NoProjectLevelOverride ==
    /\ storeCall.handler = "PUT" => "hoursOverride" \notin DOMAIN storeCall.data
    /\ \A i \in 1..Len(projects) : "hoursOverride" \notin DOMAIN projects[i]

\* an administrator's PUT whose body has hoursOverride 7 updated the project
C29_Witness ==
    /\ storeCall.handler = "PUT"
    /\ storeCall.isAdmin
    /\ "hoursOverride" \in DOMAIN storeCall.body
    /\ storeCall.body["hoursOverride"] = Num(7)
    /\ storeCall.written
    /\ "shipped" \in DOMAIN storeCall.data
    /\ apiResponse.status = 200

---------------------------------------------------------------------------
(* The DELETE handler: who deletes, in which order, and what a request that
   fails leaves behind *)

\* the ids of the projects of a table
ProjectIds(table) == {table[i].projectID : i \in 1..Len(table)}

\* the reviews of one project
ReviewsOf(table, projectID) == {r \in table : r[1] = projectID}

\* a DELETE request has ended
DeleteEnded == deletion.pc = "idle" /\ apiResponse.handler = "DELETE"

\* the request that ended removed a project
DeleteRemoved == ProjectIds(projects) # ProjectIds(deletion.before.projects)

\* the answers of the checks before the audit-log write, for a requester with
\* a session: 403 for a wrong referer or a requester who is no administrator,
\* 400 without projectID, 404 for an unknown project
C25_AnswersOfTheChecks ==
    (DeleteEnded /\ deletion.userId # 0) =>
        /\ (~deletion.fromAdminPanel \/ ~deletion.isAdmin) => apiResponse.status = 403
        /\ (deletion.fromAdminPanel /\ deletion.isAdmin /\ deletion.projectID = 0) =>
               apiResponse.status = 400
        /\ (deletion.fromAdminPanel /\ deletion.isAdmin /\ deletion.projectID # 0
                /\ deletion.projectID \notin ProjectIds(deletion.before.projects)) =>
               apiResponse.status = 404

\* C25: a DELETE request removes a project only for an administrator whose
\* referer contains '/admin/projects'; a request that ends without removing
\* the project is answered with an error (403, 400 and 404 as the checks
\* say) and leaves projects, reviews and audit log as they were.
C25_DeletedOnlyByAdminElseUnchanged ==
    /\ C25_AnswersOfTheChecks
    /\ DeleteEnded =>
          /\ DeleteRemoved => deletion.isAdmin /\ deletion.fromAdminPanel
          /\ ~DeleteRemoved =>
                 /\ apiResponse.status >= 400
                 /\ projects = deletion.before.projects
                 /\ reviews = deletion.before.reviews
                 /\ auditLog = deletion.before.auditLog

\* C26: reviews and project are deleted only after logProjectEvent was
\* called in the same request and did not throw (a successful write has left
\* its ProjectDeleted record), and when it threw the request ends with 500 and
\* deletes nothing.
C26_AuditBeforeDeletion ==
    [][/\ (reviews' # reviews \/ projects' # projects) =>
              /\ deletion.audit \in {"ok", "failed"}
              /\ deletion.audit = "ok" =>
                     \E e \in auditLog : /\ e.eventType = "ProjectDeleted"
                                         /\ e.projectId = deletion.projectID
       /\ deletion'.audit = "throws" =>
              /\ deletion'.pc = "idle"
              /\ apiResponse'.status = 500
              /\ projects' = deletion'.before.projects
              /\ reviews' = deletion'.before.reviews]_vars

\* project 1 and its reviews were deleted by a request whose audit-log write
\* succeeded
C26_Witness ==
    /\ DeleteEnded
    /\ apiResponse.status = 200
    /\ deletion.projectID = 1 /\ deletion.audit = "ok"
    /\ 1 \notin ProjectIds(projects)
    /\ ReviewsOf(deletion.before.reviews, 1) # {}
    /\ ReviewsOf(reviews, 1) = {}
    /\ \E e \in auditLog : e.eventType = "ProjectDeleted" /\ e.projectId = 1

\* C27: when a DELETE request for an existing project has ended, either the
\* project and all its reviews are gone or the project and the reviews it had
\* are still there.
C27_AllOrNothing ==
    (DeleteEnded /\ deletion.projectID \in ProjectIds(deletion.before.projects)) =>
        IF deletion.projectID \in ProjectIds(projects)
        THEN ReviewsOf(reviews, deletion.projectID)
                 = ReviewsOf(deletion.before.reviews, deletion.projectID)
        ELSE ReviewsOf(reviews, deletion.projectID) = {}

---------------------------------------------------------------------------
(* A config that supplies both keys *)

\* C30: for a config item whose config supplies both dollars_per_hour and
\* hours_equal_to_one_percent_progress, the price the effect sets and the
\* price the preview shows come from the same formula: the rate-linked one
\* when usdCost is a number, the progress-linked one otherwise.
C30_SameFormulaInEffectAndPreview ==
    (/\ showAddModal /\ ~crashed
     /\ formData.costType = "config"
     /\ formData.config.t = "json"
     /\ Truthy(formData.config.v.dollars_per_hour)
     /\ Truthy(formData.config.v.hours_equal_to_one_percent_progress)) =>
        LET preview == PricePreview(formData, globalConfig)
            rateLinked == StatedShells(formData.usdCost.v,
                                       formData.config.v.dollars_per_hour.v)
            progressLinked ==
                StatedShells(formData.config.v.hours_equal_to_one_percent_progress.v, 1)
        IN  IF formData.usdCost.t = "numeral"
            THEN /\ formData.price = NumText(rateLinked)
                 /\ preview = [panel |-> "travel", shells |-> Num(rateLinked)]
            ELSE /\ formData.price = NumText(progressLinked)
                 /\ preview = [panel |-> "progress", shells |-> Num(progressLinked)]

=============================================================================
